---- MODULE Spec2Model ----
(***************************************************************************)
(* The hex-terrain geometry model and the camera-framing engine of         *)
(* system-tactics (crate `shared`): the Level height field and its derived *)
(* metrics, the focus-point raycast, the 90-degree orbit rotation and the  *)
(* zoom / pan limits that the camera systems keep in CameraLimits.         *)
(*                                                                         *)
(* Numbers.  An f32 length is a fixed-point number with Q units per world  *)
(* unit.  Camera directions at a pitch of -45 degrees and a yaw that is a  *)
(* multiple of 45 degrees have coordinates in Z[sqrt 2], so a coordinate   *)
(* is a pair <<a, b>> that stands for (a + b * sqrt 2) / Q; a rotation by  *)
(* a multiple of 45 degrees is then computed exactly.  An orthographic     *)
(* scale is an integer number of 1/SQ.  Angles are whole degrees and time  *)
(* steps whole milliseconds.                                               *)
(***************************************************************************)
EXTENDS Integers, Sequences, FiniteSets, TLC

Q == 100
SQ == 10000

\* f32 NaN (0.0 / 0.0), as a value no computed length or height takes.
NaN == -1000000

(***************************************************************************)
(* Arithmetic of Z[sqrt 2]                                                 *)
(***************************************************************************)
Num(a) == <<a, 0>>
Zero == <<0, 0>>
Add(u, v) == <<u[1] + v[1], u[2] + v[2]>>
Sub(u, v) == <<u[1] - v[1], u[2] - v[2]>>
Neg(u) == <<0 - u[1], 0 - u[2]>>
Scale(u, k) == <<u[1] * k, u[2] * k>>
Mul(u, v) == <<u[1] * v[1] + 2 * u[2] * v[2], u[1] * v[2] + u[2] * v[1]>>
DivInt(u, k) == <<u[1] \div k, u[2] \div k>>

\* u * c for a decimal constant c given in thousandths, rounded as f32 rounds.
MulK(u, c) == <<(u[1] * c) \div 1000, (u[2] * c) \div 1000>>

\* The sign of a + b * sqrt 2 (sqrt 2 is irrational: a^2 = 2 b^2 only at 0).
Sgn(u) ==
    LET a == u[1]
        b == u[2]
    IN  IF a = 0 /\ b = 0 THEN 0
        ELSE IF a >= 0 /\ b >= 0 THEN 1
        ELSE IF a <= 0 /\ b <= 0 THEN -1
        ELSE IF a > 0 THEN (IF a * a > 2 * b * b THEN 1 ELSE -1)
        ELSE (IF 2 * b * b > a * a THEN 1 ELSE -1)

Less(u, v) == Sgn(Sub(u, v)) < 0
Leq(u, v) == Sgn(Sub(u, v)) <= 0
AbsN(u) == IF Sgn(u) < 0 THEN Neg(u) ELSE u

\* u / v in Z[sqrt 2]: u * conj(v) / norm(v).
DivN(u, v) ==
    LET n == v[1] * v[1] - 2 * v[2] * v[2]
        p == Mul(u, <<v[1], 0 - v[2]>>)
    IN  <<p[1] \div n, p[2] \div n>>

Abs(i) == IF i < 0 THEN 0 - i ELSE i
Min(i, j) == IF i <= j THEN i ELSE j
Max(i, j) == IF i >= j THEN i ELSE j
SetMin(S) == CHOOSE m \in S : \A n \in S : m <= n
SetMax(S) == CHOOSE m \in S : \A n \in S : m >= n

RECURSIVE SqrtSearch(_, _, _)
SqrtSearch(n, lo, hi) ==
    IF lo >= hi THEN lo
    ELSE LET mid == (lo + hi + 1) \div 2
         IN  IF mid * mid <= n THEN SqrtSearch(n, mid, hi)
             ELSE SqrtSearch(n, lo, mid - 1)

\* f32::sqrt on fixed-point values: the largest s with s * s <= n.
Sqrt(n) == SqrtSearch(n, 0, 46340)

(***************************************************************************)
(* Vectors                                                                 *)
(***************************************************************************)
Vec3(x, y, z) == [x |-> x, y |-> y, z |-> z]
Vec3Add(u, v) == Vec3(Add(u.x, v.x), Add(u.y, v.y), Add(u.z, v.z))
Vec3Sub(u, v) == Vec3(Sub(u.x, v.x), Sub(u.y, v.y), Sub(u.z, v.z))
Vec3Scale(u, k) == Vec3(Scale(u.x, k), Scale(u.y, k), Scale(u.z, k))

\* 2 * cos and 2 * sin of a multiple of 45 degrees.
Norm360(d) == ((d % 360) + 360) % 360
Cos2(d) ==
    LET n == Norm360(d)
    IN  CASE n = 0 -> <<2, 0>>
          [] n = 45 -> <<0, 1>>
          [] n = 90 -> Zero
          [] n = 135 -> <<0, -1>>
          [] n = 180 -> <<-2, 0>>
          [] n = 225 -> <<0, -1>>
          [] n = 270 -> Zero
          [] n = 315 -> <<0, 1>>
Sin2(d) == Cos2(d - 90)

\* Quat::from_rotation_y(d) * v.
RotateY(v, d) ==
    Vec3(DivInt(Add(Mul(v.x, Cos2(d)), Mul(v.z, Sin2(d))), 2),
         v.y,
         DivInt(Sub(Mul(v.z, Cos2(d)), Mul(v.x, Sin2(d))), 2))

\* The yaw to_euler(YXZ) reports: in (-180, 180].
WrapYaw(d) == IF Norm360(d) > 180 THEN Norm360(d) - 360 ELSE Norm360(d)

(***************************************************************************)
(* Level: the height field and its derived metrics (level.rs)              *)
(***************************************************************************)
Hex(q, r) == [x |-> q, y |-> r]

\* A level record as Level holds it: heights[r + 1][q + 1] is the height of
\* cell (q, r), stored row by row (Array2 of shape height x width).
MakeLevel(name, width, height, heights) ==
    [name |-> name, width |-> width, height |-> height, heights |-> heights]

get_height(level, hex) ==
    IF hex.x >= 0 /\ hex.x < level.width /\ hex.y >= 0 /\ hex.y < level.height
    THEN level.heights[hex.y + 1][hex.x + 1]
    ELSE 0

\* All cells, q outermost and r innermost.
get_hex_grid(level) ==
    [i \in 1..(level.width * level.height) |->
        Hex((i - 1) \div level.height, (i - 1) % level.height)]

\* sqrt 3 world units, for the pointy layout's column pitch.
Sqrt3Q == (1732 * Q) \div 1000

\* HexLayout::pointy().with_scale(1.0).hex_to_world_pos: x = sqrt3 * (q + r/2),
\* y = 3/2 * r.
hex_to_world_pos(hex) ==
    [x |-> (Sqrt3Q * (2 * hex.x + hex.y)) \div 2, y |-> (3 * Q * hex.y) \div 2]

\* Componentwise minimum and maximum of the cells' 3D positions
\* (x, height, z); lengths here are plain fixed-point integers.
get_world_bounds(level) ==
    LET grid == get_hex_grid(level)
        cells == {grid[i] : i \in DOMAIN grid}
        xs == {hex_to_world_pos(h).x : h \in cells}
        ys == {get_height(level, h) : h \in cells}
        zs == {hex_to_world_pos(h).y : h \in cells}
    IN  <<[x |-> SetMin(xs), y |-> SetMin(ys), z |-> SetMin(zs)],
          [x |-> SetMax(xs), y |-> SetMax(ys), z |-> SetMax(zs)]>>

\* One centre cell, whatever the parity of the dimensions.
get_center_hexes_single(level) == <<Hex(level.width \div 2, level.height \div 2)>>

get_center_hexes(level) ==
    LET w == level.width
        h == level.height
    IN  CASE w % 2 = 1 /\ h % 2 = 1 -> <<Hex(w \div 2, h \div 2)>>
          [] w % 2 = 0 /\ h % 2 = 0 ->
                <<Hex(w \div 2 - 1, h \div 2 - 1), Hex(w \div 2, h \div 2 - 1),
                  Hex(w \div 2 - 1, h \div 2), Hex(w \div 2, h \div 2)>>
          [] w % 2 = 0 /\ h % 2 = 1 ->
                <<Hex(w \div 2 - 1, h \div 2), Hex(w \div 2, h \div 2)>>
          [] w % 2 = 1 /\ h % 2 = 0 ->
                <<Hex(w \div 2, h \div 2 - 1), Hex(w \div 2, h \div 2)>>

RECURSIVE SumSeq(_)
SumSeq(s) == IF s = <<>> THEN 0 ELSE Head(s) + SumSeq(Tail(s))

\* The mean of the centre cells' 3D positions.
get_center_world_pos(level) ==
    LET hexes == get_center_hexes(level)
        count == Len(hexes)
        heights == [i \in 1..count |-> get_height(level, hexes[i])]
    IN  Vec3(Num(SumSeq([i \in 1..count |-> hex_to_world_pos(hexes[i]).x]) \div count),
             IF \E i \in 1..count : heights[i] = NaN
             THEN Num(NaN)
             ELSE Num(SumSeq(heights) \div count),
             Num(SumSeq([i \in 1..count |-> hex_to_world_pos(hexes[i]).y]) \div count))

\* The extent with the height measured from 0 instead of from the lowest cell.
get_level_diagonal_extent_from_zero(level) ==
    LET b == get_world_bounds(level)
        width == b[2].x - b[1].x
        depth == b[2].z - b[1].z
        height == b[2].y
    IN  Sqrt(width * width + depth * depth + height * height)

get_level_diagonal_extent(level) ==
    LET b == get_world_bounds(level)
        width == b[2].x - b[1].x
        depth == b[2].z - b[1].z
        height == b[2].y - b[1].y
    IN  Sqrt(width * width + depth * depth + height * height)

current_level(levels, index) == levels[index + 1]
level_count(levels) == Len(levels)

(***************************************************************************)
(* Camera geometry (rendering/camera.rs).  A direction is kept doubled, so *)
(* that its coordinates are in Z[sqrt 2]: forward = Forward2 / 2.          *)
(***************************************************************************)
Transform(translation, yaw) == [translation |-> translation, yaw |-> yaw]

\* transform.forward(): the rotation R_y(yaw) * R_x(-45 deg) applied to -Z.
Forward2(transform) == RotateY(Vec3(Zero, <<0, -1>>, <<0, -1>>), transform.yaw)
\* transform.right(): the rotation applied to +X.
Right2(transform) == RotateY(Vec3(<<2, 0>>, Zero, Zero), transform.yaw)
\* Vec3::new(forward.x, 0, forward.z).normalize()
\* (its length is cos 45 deg = sqrt 2 / 2, so normalising multiplies by sqrt 2)
FlatForward2(transform) ==
    LET f == Forward2(transform)
    IN  Vec3(Mul(f.x, <<0, 1>>), Zero, Mul(f.z, <<0, 1>>))

\* camera_pos + direction * t
PointOnRay(camera_pos, direction2, t) ==
    Vec3(Add(camera_pos.x, DivInt(Mul(direction2.x, t), 2)),
         Add(camera_pos.y, DivInt(Mul(direction2.y, t), 2)),
         Add(camera_pos.z, DivInt(Mul(direction2.z, t), 2)))

\* direction.y.abs() < 0.001
NearlyHorizontal(direction2) == Less(Scale(AbsN(direction2.y), 1000), Num(2))

is_inside_regular_hexagon(point, center, radius) ==
    LET dx == AbsN(Sub(point.x, center.x))
        dy == AbsN(Sub(point.y, center.y))
    IN  IF Less(MulK(radius, 866), dx) THEN FALSE
        ELSE IF Less(radius, dy) THEN FALSE
        ELSE Sgn(Sub(Sub(MulK(radius, 1500), MulK(dx, 866)), MulK(dy, 500))) >= 0

None == [some |-> FALSE]
Some(v) == [some |-> TRUE, value |-> v]

\* The ray parameter at which the ray meets the plane y = height.
RayPlaneT(camera_pos, direction2, height) ==
    DivN(Scale(Sub(Num(height), camera_pos.y), 2), direction2.y)

\* Whether the cell is hit: its plane is met in front of the camera, inside
\* the cell's own hexagon.  With a NaN height, t and the intersection are NaN:
\* t < 0.0 is false and so is the last comparison of the hexagon test.
HexHit(camera_pos, direction2, level, hex) ==
    LET height == get_height(level, hex)
        t == RayPlaneT(camera_pos, direction2, height)
        intersection == PointOnRay(camera_pos, direction2, t)
        hex_world_pos == hex_to_world_pos(hex)
    IN  /\ height # NaN
        /\ Sgn(t) >= 0
        /\ is_inside_regular_hexagon(
               [x |-> intersection.x, y |-> intersection.z],
               [x |-> Num(hex_world_pos.x), y |-> Num(hex_world_pos.y)],
               Num(Q))

\* The cells of the grid whose height lies outside the heights array, by
\* their place in the grid: get_height panics on them.
PanickingCells(level) ==
    LET grid == get_hex_grid(level)
        rows == Len(level.heights)
        cols == IF rows = 0 THEN 0 ELSE Len(level.heights[1])
    IN  {i \in DOMAIN grid : ~(grid[i].y < rows /\ grid[i].x < cols)}

\* The cells the loop gets to look at: all of them, or those before the
\* first one get_height panics on.
CellsLookedAt(level) ==
    LET bad == PanickingCells(level)
    IN  IF bad = {} THEN DOMAIN get_hex_grid(level) ELSE 1 .. (SetMin(bad) - 1)

\* The places in the grid of the cells looked at that the ray hits.
Hits(camera_pos, direction2, level) ==
    LET grid == get_hex_grid(level)
    IN  {i \in CellsLookedAt(level) : HexHit(camera_pos, direction2, level, grid[i])}

\* The loop reaches a cell get_height panics on before any cell is hit.
RaycastPanics(camera_pos, direction2, level) ==
    /\ ~NearlyHorizontal(direction2)
    /\ PanickingCells(level) # {}
    /\ Hits(camera_pos, direction2, level) = {}

\* A variant that goes through all cells and keeps the hit nearest to the
\* camera.
raycast_hex_surfaces_nearest(camera_pos, direction2, level) ==
    IF NearlyHorizontal(direction2) THEN None
    ELSE LET grid == get_hex_grid(level)
             hits == Hits(camera_pos, direction2, level)
             T(i) == RayPlaneT(camera_pos, direction2, get_height(level, grid[i]))
         IN  IF hits = {} THEN None
             ELSE LET nearest == CHOOSE i \in hits : \A j \in hits : Leq(T(i), T(j))
                      height == get_height(level, grid[nearest])
                      p == PointOnRay(camera_pos, direction2, T(nearest))
                  IN  Some(Vec3(p.x, Num(height), p.z))

raycast_hex_surfaces(camera_pos, direction2, level) ==
    IF NearlyHorizontal(direction2) THEN None
    ELSE LET grid == get_hex_grid(level)
             hits == Hits(camera_pos, direction2, level)
         IN  IF hits = {} THEN None
             ELSE LET hex == grid[SetMin(hits)]
                      height == get_height(level, hex)
                      p == PointOnRay(camera_pos, direction2,
                                      RayPlaneT(camera_pos, direction2, height))
                  IN  Some(Vec3(p.x, Num(height), p.z))

\* The focus point without the test for a horizontal ray: t = -camera_pos.y
\* / 0.0 is infinite and the point's x and z are not finite.
FocusPoint_unguarded(camera_pos, forward_dir, level) ==
    LET hit == raycast_hex_surfaces(camera_pos, forward_dir, level)
    IN  IF hit.some THEN hit.value
        ELSE IF NearlyHorizontal(forward_dir)
        THEN Vec3(Num(NaN), Zero, Num(NaN))
        ELSE LET p == PointOnRay(camera_pos, forward_dir,
                                 RayPlaneT(camera_pos, forward_dir, 0))
             IN  Vec3(p.x, Zero, p.z)

\* The body of calculate_camera_focus_point, on the camera's position and
\* its (doubled) forward direction.
FocusPoint(camera_pos, forward_dir, level) ==
    LET hit == raycast_hex_surfaces(camera_pos, forward_dir, level)
    IN  IF hit.some THEN hit.value
        ELSE IF NearlyHorizontal(forward_dir)
        THEN Vec3Add(camera_pos, Vec3Scale(forward_dir, 5 * Q))
        ELSE LET p == PointOnRay(camera_pos, forward_dir,
                                 RayPlaneT(camera_pos, forward_dir, 0))
             IN  Vec3(p.x, Zero, p.z)

calculate_camera_focus_point(transform, level) ==
    FocusPoint(transform.translation, Forward2(transform), level)

\* How many times the call divides by direction.y: once for every cell looked
\* at up to the first hit, and once more for the ground plane.
DivisionsByDirectionY(camera_pos, forward_dir, level) ==
    IF NearlyHorizontal(forward_dir) THEN 0
    ELSE LET hits == Hits(camera_pos, forward_dir, level)
         IN  IF hits # {} THEN SetMin(hits)
             ELSE Cardinality(CellsLookedAt(level))
                      + (IF PanickingCells(level) = {} THEN 1 ELSE 0)

orbit_camera_around_point(transform, pivot, y_rotation) ==
    LET offset == Vec3Sub(transform.translation, pivot)
        rotated_offset == RotateY(offset, y_rotation)
    IN  Transform(Vec3Add(pivot, rotated_offset), WrapYaw(transform.yaw + y_rotation))

\* f32::clamp panics when min > max.
ClampPanics(lo, hi) == lo > hi
Clamp(v, lo, hi) == IF v < lo THEN lo ELSE IF v > hi THEN hi ELSE v

\* The interpolation on the scale as it comes, without the clamp.
calculate_movement_radius_unclamped(camera_limits, current_scale) ==
    LET span == camera_limits.max_zoom_scale - camera_limits.min_zoom_scale
    IN  IF span = 0 THEN NaN
        ELSE ((camera_limits.max_zoom_scale - current_scale)
                 * (camera_limits.level_diagonal \div 2)) \div span

\* The value calculate_movement_radius returns when its clamp does not panic;
\* max = min makes the zoom factor 0.0 / 0.0.
calculate_movement_radius(camera_limits, current_scale) ==
    LET clamped_scale ==
            Clamp(current_scale, camera_limits.min_zoom_scale, camera_limits.max_zoom_scale)
        span == camera_limits.max_zoom_scale - camera_limits.min_zoom_scale
    IN  IF span = 0 THEN NaN
        ELSE ((camera_limits.max_zoom_scale - clamped_scale)
                 * (camera_limits.level_diagonal \div 2)) \div span

MovementRadiusPanics(camera_limits) ==
    ClampPanics(camera_limits.min_zoom_scale, camera_limits.max_zoom_scale)

\* The scale without the padding of 3 world units.
calculate_optimal_scale_unpadded(level_diagonal, viewport_size) ==
    (level_diagonal * SQ) \div (Q * viewport_size)

calculate_optimal_scale(level_diagonal, viewport_size) ==
    ((level_diagonal + 3 * Q) * SQ) \div (Q * viewport_size)

\* The position put ahead of the centre instead of behind it.
calculate_optimal_camera_position_ahead(center_pos, camera_forward2) ==
    LET camera_height == Add(center_pos.y, Num(20 * Q))
        height_diff == Sub(camera_height, center_pos.y)
        t == DivN(Scale(height_diff, 2), Neg(camera_forward2.y))
    IN  Vec3(Add(center_pos.x, DivInt(Mul(t, camera_forward2.x), 2)),
             camera_height,
             Add(center_pos.z, DivInt(Mul(t, camera_forward2.z), 2)))

calculate_optimal_camera_position(center_pos, camera_forward2) ==
    LET camera_height == Add(center_pos.y, Num(20 * Q))
        height_diff == Sub(camera_height, center_pos.y)
        t == DivN(Scale(height_diff, 2), Neg(camera_forward2.y))
    IN  Vec3(Sub(center_pos.x, DivInt(Mul(t, camera_forward2.x), 2)),
             camera_height,
             Sub(center_pos.z, DivInt(Mul(t, camera_forward2.z), 2)))

\* A variant that knows only the band around 45 degrees.
get_viewport_size_for_orientation_one_band(transform, window) ==
    LET yaw_degrees == transform.yaw
        normalized_yaw == IF yaw_degrees < 0 THEN yaw_degrees + 360 ELSE yaw_degrees
        is_portrait == normalized_yaw >= 35 /\ normalized_yaw <= 55
    IN  IF is_portrait THEN window.height ELSE window.width

get_viewport_size_for_orientation(transform, window) ==
    LET yaw_degrees == transform.yaw
        normalized_yaw == IF yaw_degrees < 0 THEN yaw_degrees + 360 ELSE yaw_degrees
        is_portrait == \/ (normalized_yaw >= 35 /\ normalized_yaw <= 55)
                       \/ (normalized_yaw >= 215 /\ normalized_yaw <= 235)
    IN  IF is_portrait THEN window.height ELSE window.width

(***************************************************************************)
(* Bounds of the exploration                                               *)
(***************************************************************************)
\* Inputs (key presses, wheel and mouse events, window events) in one run.
MaxInputs == 2

\* Frame times (Time::delta) in milliseconds: a stalled clock, 45 and 90
\* degrees' worth of rotation.
Deltas == {0, 250, 500}
\* Frame times of the frames in which movement keys are held.
MoveDeltas == {250}
WindowSizes == {<<1280, 720>>, <<600, 400>>}
WheelSteps == {-300}
MoveKeySets == {{"W"}, {"A", "D"}}
ButtonEvents == {<<>>, <<"Pressed">>, <<"Released">>}
MotionEvents == {<<>>, <<[x |-> 200, y |-> -200]>>}

\* The registry as load_levels_from_directory leaves it for three level
\* files: sorted by name, the first one current.
LoadedLevels ==
    << MakeLevel("Alpha", 2, 2, <<<<100, 200>>, <<200, 400>>>>),
       MakeLevel("Bravo", 1, 1, <<<<100>>>>),
       MakeLevel("Charlie", 3, 2, <<<<100, 100, 300>>, <<200, 300, 300>>>>) >>

(***************************************************************************)
(* State                                                                   *)
(***************************************************************************)
VARIABLES
    levels,               \* LevelsResource.levels
    current_level_index,  \* LevelsResource.current_level_index (from 0)
    levels_changed,       \* LevelsResource changed since on_level_change_system ran
    camera_transform,     \* the TacticalCamera's Transform: translation and yaw
    ortho_scale,          \* the TacticalCamera's orthographic scale
    projection_changed,   \* Projection changed since on_zoom_change_system ran
    rotation_state,       \* CameraRotationState: rotation_mode, focus_point
    camera_limits,        \* CameraLimits
    pan_state,            \* MousePanState
    window,               \* the primary Window, when there is one
    resize_events,        \* WindowResized events on_window_resize_system has not read
    panicked,             \* a system has panicked: the app is gone
    budget,               \* inputs still to be explored
    orbit,                \* history: the rotation in progress, as requested
    recomputes,           \* history: limit recomputations since the last completion
    ran,                  \* the systems of the Update schedule run so far in this tick
    probe,                \* a call of a library function: its arguments and its result
    directory             \* the levels directory on disk

\* The state of the running app.
app_vars == <<levels, current_level_index, levels_changed, camera_transform, ortho_scale,
              projection_changed, rotation_state, camera_limits, pan_state, window,
              resize_events, panicked, budget, orbit, recomputes>>

\* The state of the schedule and of the function calls looked at on their own.
aux_vars == <<ran, probe, directory>>

vars == <<levels, current_level_index, levels_changed, camera_transform, ortho_scale,
          projection_changed, rotation_state, camera_limits, pan_state, window,
          resize_events, panicked, budget, orbit, recomputes, ran, probe, directory>>

Stable == [kind |-> "Stable", remaining |-> 0]
Clockwise(remaining) == [kind |-> "Clockwise", remaining |-> remaining]
CounterClockwise(remaining) == [kind |-> "CounterClockwise", remaining |-> remaining]
IsStable(mode) == mode.kind = "Stable"

\* CameraLimits::default()
DefaultCameraLimits ==
    [min_zoom_scale |-> (5 * SQ) \div 1000,
     max_zoom_scale |-> (5 * SQ) \div 100,
     level_diagonal |-> 10 * Q,
     needs_recalculation |-> TRUE,
     optimal_camera_position |-> Vec3(Num((45 * Q) \div 10), Num(20 * Q), Num(0 - (45 * Q) \div 10)),
     current_movement_radius |-> 5 * Q,
     rotation_processed |-> FALSE]

\* setup_camera: the spawned camera's Transform and orthographic scale.
SetupTransform ==
    Transform(Vec3(Num((45 * Q) \div 10), Num(20 * Q), Num(0 - (45 * Q) \div 10)), -45)
SetupScale == SQ \div 10

\* No rotation requested yet.
NoOrbit ==
    [active |-> FALSE, direction |-> 0, yaw0 |-> 0, applied |-> 0, framed |-> FALSE,
     ignored |-> FALSE, dist2 |-> Zero, height |-> Zero]

\* The horizontal squared distance and the height of the camera over a pivot.
OrbitOf(translation, pivot) ==
    LET d == Vec3Sub(translation, pivot)
    IN  [dist2 |-> Add(Mul(d.x, d.x), Mul(d.z, d.z)), height |-> d.y]

\* No function call is being looked at.
NoProbe == [call |-> "none"]

\* The levels directory does not exist.
NoDirectory == [kind |-> "missing", files |-> [file_name \in {} |-> file_name]]

InitWith(registry, b) ==
    /\ levels = registry
    /\ current_level_index = 0
    /\ levels_changed = TRUE
    /\ camera_transform = SetupTransform
    /\ ortho_scale = SetupScale
    /\ projection_changed = TRUE
    /\ rotation_state = [rotation_mode |-> Stable, focus_point |-> Vec3(Zero, Zero, Zero)]
    /\ camera_limits = DefaultCameraLimits
    /\ pan_state = [is_panning |-> FALSE]
    /\ \E size \in WindowSizes :
           window = [present |-> TRUE, width |-> size[1], height |-> size[2]]
    /\ resize_events = FALSE
    /\ panicked = FALSE
    /\ budget = b
    /\ orbit = NoOrbit
    /\ recomputes = 0

Init ==
    /\ InitWith(LoadedLevels, MaxInputs)
    /\ ran = {}
    /\ probe = NoProbe
    /\ directory = NoDirectory

\* One more input explored.
Spend == budget - 1

(***************************************************************************)
(* The environment: the window                                             *)
(***************************************************************************)
NoWindow == [present |-> FALSE, width |-> 0, height |-> 0]

WindowResized(size) ==
    /\ ~panicked
    /\ UNCHANGED aux_vars
    /\ window.present
    /\ <<window.width, window.height>> # size
    /\ budget > 0
    /\ window' = [present |-> TRUE, width |-> size[1], height |-> size[2]]
    /\ resize_events' = TRUE
    /\ budget' = Spend
    /\ UNCHANGED <<levels, current_level_index, levels_changed, camera_transform,
                   ortho_scale, projection_changed, rotation_state, camera_limits,
                   pan_state, panicked, orbit, recomputes>>

WindowClosed ==
    /\ ~panicked
    /\ UNCHANGED aux_vars
    /\ window.present
    /\ budget > 0
    /\ window' = NoWindow
    /\ budget' = Spend
    /\ UNCHANGED <<levels, current_level_index, levels_changed, camera_transform,
                   ortho_scale, projection_changed, rotation_state, camera_limits,
                   pan_state, resize_events, panicked, orbit, recomputes>>

WindowCreated(size) ==
    /\ ~panicked
    /\ UNCHANGED aux_vars
    /\ ~window.present
    /\ budget > 0
    /\ window' = [present |-> TRUE, width |-> size[1], height |-> size[2]]
    /\ budget' = Spend
    /\ UNCHANGED <<levels, current_level_index, levels_changed, camera_transform,
                   ortho_scale, projection_changed, rotation_state, camera_limits,
                   pan_state, resize_events, panicked, orbit, recomputes>>

(***************************************************************************)
(* Input systems (input.rs)                                                *)
(***************************************************************************)
\* A variant whose step to the next level does not wrap around.
CycledIndex_no_wrap(index, count, arrow_left, arrow_right) ==
    LET after_left ==
            IF arrow_left
            THEN (IF index = 0 THEN count - 1 ELSE index - 1)
            ELSE index
    IN  IF arrow_right THEN after_left + 1 ELSE after_left

\* The index the two "if just_pressed" blocks leave, ArrowLeft first: the
\* previous level with wraparound, then the next one modulo the count.
CycledIndex(index, count, arrow_left, arrow_right) ==
    LET after_left ==
            IF arrow_left
            THEN (IF index = 0 THEN count - 1 ELSE index - 1)
            ELSE index
    IN  IF arrow_right THEN (after_left + 1) % count ELSE after_left

level_cycling_input_system(arrow_left, arrow_right) ==
    /\ ~panicked
    /\ UNCHANGED aux_vars
    /\ LET count == level_count(levels)
           after_right == CycledIndex(current_level_index, count, arrow_left, arrow_right)
       IN  IF count <= 1 \/ ~(arrow_left \/ arrow_right)
           THEN UNCHANGED <<current_level_index, levels_changed, budget>>
           ELSE /\ budget > 0
                /\ current_level_index' = after_right
                /\ levels_changed' = TRUE
                /\ budget' = Spend
    /\ UNCHANGED <<levels, camera_transform, ortho_scale, projection_changed,
                   rotation_state, camera_limits, pan_state, window, resize_events, panicked, orbit, recomputes>>

\* direction * units_per_second * delta_time, for a doubled direction.
MoveBy(translation, direction2, units_per_second, delta_time, sign) ==
    Vec3Add(translation,
            Vec3Scale(direction2, sign * ((units_per_second * Q * delta_time) \div 2000)))

camera_movement_system(keys, delta_time) ==
    /\ ~panicked
    /\ UNCHANGED aux_vars
    /\ IF ~IsStable(rotation_state.rotation_mode)
       THEN UNCHANGED <<camera_transform, budget>>
       ELSE LET movement_speed == 10
                forward == FlatForward2(camera_transform)
                right == Right2(camera_transform)
                t0 == camera_transform.translation
                t1 == IF "W" \in keys THEN MoveBy(t0, forward, movement_speed, delta_time, 1) ELSE t0
                t2 == IF "S" \in keys THEN MoveBy(t1, forward, movement_speed, delta_time, -1) ELSE t1
                t3 == IF "A" \in keys THEN MoveBy(t2, right, movement_speed, delta_time, -1) ELSE t2
                t4 == IF "D" \in keys THEN MoveBy(t3, right, movement_speed, delta_time, 1) ELSE t3
            IN  /\ camera_transform' = [camera_transform EXCEPT !.translation = t4]
                /\ IF t4 = t0 THEN UNCHANGED budget
                   ELSE budget > 0 /\ budget' = Spend
    /\ UNCHANGED <<levels, current_level_index, levels_changed, ortho_scale,
                   projection_changed, rotation_state, camera_limits, pan_state, window,
                   resize_events, panicked, orbit, recomputes>>

\* The hard-coded zoom range of camera_zoom_system: clamp(0.005, 0.05).
ZoomSystemMin == (5 * SQ) \div 1000
ZoomSystemMax == (5 * SQ) \div 100

RECURSIVE ZoomAll(_, _)
ZoomAll(scale, events) ==
    IF events = <<>> THEN scale
    ELSE LET zoom_speed_times_y == (Head(events) * SQ) \div 10000
         IN  ZoomAll(Clamp(scale - zoom_speed_times_y, ZoomSystemMin, ZoomSystemMax),
                     Tail(events))

camera_zoom_system(wheel_events) ==
    /\ ~panicked
    /\ UNCHANGED aux_vars
    /\ IF wheel_events = <<>>
       THEN UNCHANGED <<ortho_scale, projection_changed, budget>>
       ELSE /\ budget > 0
            /\ ortho_scale' = ZoomAll(ortho_scale, wheel_events)
            /\ projection_changed' = TRUE
            /\ budget' = Spend
    /\ UNCHANGED <<levels, current_level_index, levels_changed, camera_transform,
                   rotation_state, camera_limits, pan_state, window, resize_events, panicked, orbit, recomputes>>

\* The history of an accepted request: where and how the orbit starts.
OrbitStart(direction, focus_point) ==
    LET o == OrbitOf(camera_transform.translation, focus_point)
    IN  [active |-> TRUE, direction |-> direction, yaw0 |-> camera_transform.yaw,
         applied |-> 0, framed |-> ~camera_limits.needs_recalculation,
         ignored |-> FALSE, dist2 |-> o.dist2, height |-> o.height]

\* A variant that skips the Stable test: a request restarts a rotation in
\* progress.
camera_rotation_input_system_unguarded(key_q, key_e) ==
    /\ ~panicked
    /\ UNCHANGED aux_vars
    /\ IF key_q \/ key_e
       THEN LET focus_point ==
                    calculate_camera_focus_point(
                        camera_transform, current_level(levels, current_level_index))
            IN  /\ budget > 0
                /\ rotation_state' =
                       [rotation_mode |->
                            IF key_e THEN Clockwise(90) ELSE CounterClockwise(90),
                        focus_point |-> focus_point]
                /\ orbit' = OrbitStart(IF key_e THEN -1 ELSE 1, focus_point)
                /\ budget' = Spend
       ELSE UNCHANGED <<rotation_state, orbit, budget>>
    /\ UNCHANGED <<levels, current_level_index, levels_changed, camera_transform,
                   ortho_scale, projection_changed, camera_limits, pan_state, window,
                   resize_events, panicked, recomputes>>

camera_rotation_input_system(key_q, key_e) ==
    /\ ~panicked
    /\ UNCHANGED aux_vars
    /\ IF IsStable(rotation_state.rotation_mode)
       THEN IF key_q \/ key_e
            THEN LET focus_point ==
                         calculate_camera_focus_point(
                             camera_transform, current_level(levels, current_level_index))
                 IN  /\ budget > 0
                     /\ rotation_state' =
                            [rotation_mode |->
                                 IF key_e THEN Clockwise(90) ELSE CounterClockwise(90),
                             focus_point |-> focus_point]
                     /\ orbit' = OrbitStart(IF key_e THEN -1 ELSE 1, focus_point)
                     /\ budget' = Spend
            ELSE UNCHANGED <<rotation_state, orbit, budget>>
       ELSE /\ UNCHANGED <<rotation_state, budget>>
            /\ orbit' = [orbit EXCEPT !.ignored = @ \/ key_q \/ key_e]
    /\ UNCHANGED <<levels, current_level_index, levels_changed, camera_transform,
                   ortho_scale, projection_changed, camera_limits, pan_state, window,
                   resize_events, panicked, recomputes>>

RECURSIVE PanButtons(_, _)
PanButtons(is_panning, button_events) ==
    IF button_events = <<>> THEN is_panning
    ELSE PanButtons(Head(button_events) = "Pressed", Tail(button_events))

RECURSIVE PanMotion(_, _, _)
PanMotion(translation, transform, motion_events) ==
    IF motion_events = <<>> THEN translation
    ELSE LET delta == Head(motion_events)
             \* pan_sensitivity 0.01 per pixel, on doubled directions
             right == Vec3Scale(Right2(transform), (0 - delta.x * Q) \div 200)
             forward == Vec3Scale(FlatForward2(transform), (delta.y * Q) \div 200)
         IN  PanMotion(Vec3Add(translation, Vec3Add(right, forward)), transform,
                       Tail(motion_events))

\* What one run of camera_mouse_pan_system does to the app's state, given
\* the events of its frame.  Events that arrive while a rotation is in
\* progress are not read, and are gone from the event buffers by the time the
\* rotation has ended.
MousePanRun(button_events, motion_events) ==
    /\ ~panicked
    /\ IF ~IsStable(rotation_state.rotation_mode)
       THEN UNCHANGED <<pan_state, camera_transform, budget>>
       ELSE LET is_panning == PanButtons(pan_state.is_panning, button_events)
                translation ==
                    IF is_panning
                    THEN PanMotion(camera_transform.translation, camera_transform,
                                   motion_events)
                    ELSE camera_transform.translation
            IN  /\ pan_state' = [is_panning |-> is_panning]
                /\ camera_transform' = [camera_transform EXCEPT !.translation = translation]
                /\ IF /\ is_panning = pan_state.is_panning
                      /\ translation = camera_transform.translation
                   THEN UNCHANGED budget
                   ELSE budget > 0 /\ budget' = Spend
    /\ UNCHANGED <<levels, current_level_index, levels_changed, ortho_scale,
                   projection_changed, rotation_state, camera_limits, window,
                   resize_events, panicked, orbit, recomputes>>

camera_mouse_pan_system(button_events, motion_events) ==
    /\ MousePanRun(button_events, motion_events)
    /\ UNCHANGED aux_vars

(***************************************************************************)
(* Camera systems (rendering/camera.rs)                                    *)
(***************************************************************************)
\* A rotation of 180 degrees per second.
RotationSpeed == 180
\* A variant without the min: a frame rotates by its full delta.
ThisFrameRotation_uncapped(remaining, delta_time) == (RotationSpeed * delta_time) \div 1000

ThisFrameRotation(remaining, delta_time) ==
    Min((RotationSpeed * delta_time) \div 1000, remaining)

\* A variant in which a rotation never counts as finished.
RotationFinished_never(remaining) == FALSE

\* "if *remaining <= 0.0": the rotation is complete.
RotationFinished(remaining) == remaining <= 0

camera_rotation_animation_system(delta_time) ==
    /\ ~panicked
    /\ UNCHANGED aux_vars
    /\ LET mode == rotation_state.rotation_mode
           this_frame_rotation == ThisFrameRotation(mode.remaining, delta_time)
           rotation_amount ==
               IF mode.kind = "Clockwise" THEN 0 - this_frame_rotation
               ELSE this_frame_rotation
           remaining == mode.remaining - this_frame_rotation
       IN  IF IsStable(mode)
           THEN UNCHANGED <<camera_transform, rotation_state, camera_limits, orbit,
                            recomputes>>
           ELSE /\ camera_transform' =
                       orbit_camera_around_point(camera_transform,
                                                 rotation_state.focus_point,
                                                 rotation_amount)
                /\ IF RotationFinished(remaining)
                   THEN /\ rotation_state' = [rotation_state EXCEPT !.rotation_mode = Stable]
                        /\ camera_limits' = [camera_limits EXCEPT !.rotation_processed = FALSE]
                        /\ orbit' = [orbit EXCEPT !.active = FALSE,
                                                  !.applied = @ + this_frame_rotation,
                                                  !.ignored = FALSE,
                                                  !.dist2 = Zero, !.height = Zero]
                        /\ recomputes' = 0
                   ELSE /\ rotation_state' =
                               [rotation_state EXCEPT !.rotation_mode.remaining = remaining]
                        /\ orbit' = [orbit EXCEPT !.applied = @ + this_frame_rotation]
                        /\ UNCHANGED <<camera_limits, recomputes>>
    /\ UNCHANGED <<levels, current_level_index, levels_changed, ortho_scale,
                   projection_changed, pan_state, window, resize_events,
                   panicked, budget>>

\* The step "current_movement_radius = calculate_movement_radius(limits, scale)":
\* the limits it leaves, and whether f32::clamp panicked in it.
UpdateMovementRadius(limits, scale) ==
    IF MovementRadiusPanics(limits)
    THEN [panics |-> TRUE, limits |-> limits]
    ELSE [panics |-> FALSE,
          limits |-> [limits EXCEPT
                          !.current_movement_radius = calculate_movement_radius(limits, scale)]]

OptimalScaleFor(level_diagonal) ==
    calculate_optimal_scale(level_diagonal,
                            get_viewport_size_for_orientation(camera_transform, window))

OptimalPosition ==
    calculate_optimal_camera_position(
        get_center_world_pos(current_level(levels, current_level_index)),
        Forward2(camera_transform))

on_level_change_system ==
    /\ ~panicked
    /\ UNCHANGED aux_vars
    /\ IF ~levels_changed
       THEN UNCHANGED <<levels_changed, camera_transform, ortho_scale, projection_changed,
                        camera_limits, panicked>>
       ELSE /\ levels_changed' = FALSE
            /\ IF ~window.present
               THEN UNCHANGED <<camera_transform, ortho_scale, projection_changed,
                                camera_limits, panicked>>
               ELSE LET level == current_level(levels, current_level_index)
                        level_diagonal == get_level_diagonal_extent(level)
                        optimal_position == OptimalPosition
                        optimal_scale == OptimalScaleFor(level_diagonal)
                        limits ==
                            [camera_limits EXCEPT
                                 !.level_diagonal = level_diagonal,
                                 !.optimal_camera_position = optimal_position,
                                 !.max_zoom_scale = optimal_scale]
                        radius == UpdateMovementRadius(limits, optimal_scale)
                    IN  /\ camera_transform' =
                               [camera_transform EXCEPT !.translation = optimal_position]
                        /\ ortho_scale' = optimal_scale
                        /\ projection_changed' = TRUE
                        /\ panicked' = radius.panics
                        /\ camera_limits' =
                               IF radius.panics THEN radius.limits
                               ELSE [radius.limits EXCEPT !.needs_recalculation = FALSE]
    /\ UNCHANGED <<levels, current_level_index, rotation_state, pan_state, window,
                   resize_events, budget, orbit, recomputes>>

NearlyEqual(a, b) == a = NaN \/ b = NaN \/ Abs(a - b) * 1000 <= Q

on_zoom_change_system ==
    /\ ~panicked
    /\ UNCHANGED aux_vars
    /\ IF ~projection_changed
       THEN UNCHANGED <<projection_changed, camera_limits, panicked>>
       ELSE /\ projection_changed' = FALSE
            /\ IF MovementRadiusPanics(camera_limits)
               THEN panicked' = TRUE /\ UNCHANGED camera_limits
               ELSE LET new_movement_radius ==
                            calculate_movement_radius(camera_limits, ortho_scale)
                    IN  /\ camera_limits' =
                               IF NearlyEqual(new_movement_radius,
                                              camera_limits.current_movement_radius)
                               THEN camera_limits
                               ELSE [camera_limits EXCEPT
                                         !.current_movement_radius = new_movement_radius]
                        /\ UNCHANGED panicked
    /\ UNCHANGED <<levels, current_level_index, levels_changed, camera_transform,
                   ortho_scale, rotation_state, pan_state, window, resize_events, budget, orbit, recomputes>>

\* A variant that does not look at rotation_processed.
RotationCompletePending_unflagged == IsStable(rotation_state.rotation_mode)

\* The two early returns of on_rotation_complete_system: the camera is
\* Stable and the completion has not been processed yet.
RotationCompletePending ==
    /\ IsStable(rotation_state.rotation_mode)
    /\ ~camera_limits.rotation_processed

on_rotation_complete_system ==
    /\ ~panicked
    /\ UNCHANGED aux_vars
    /\ IF ~RotationCompletePending \/ ~window.present
       THEN UNCHANGED <<camera_limits, panicked, recomputes>>
       ELSE LET limits ==
                    [camera_limits EXCEPT
                         !.optimal_camera_position = OptimalPosition,
                         !.max_zoom_scale = OptimalScaleFor(camera_limits.level_diagonal)]
                radius == UpdateMovementRadius(limits, ortho_scale)
            IN  /\ panicked' = radius.panics
                /\ camera_limits' =
                       IF radius.panics THEN radius.limits
                       ELSE [radius.limits EXCEPT !.rotation_processed = TRUE]
                /\ recomputes' = IF radius.panics THEN recomputes ELSE recomputes + 1
    /\ UNCHANGED <<levels, current_level_index, levels_changed, camera_transform,
                   ortho_scale, projection_changed, rotation_state, pan_state, window,
                   resize_events, budget, orbit>>

on_window_resize_system ==
    /\ ~panicked
    /\ UNCHANGED aux_vars
    /\ IF ~resize_events
       THEN UNCHANGED <<resize_events, camera_limits, panicked>>
       ELSE /\ resize_events' = FALSE
            /\ IF ~window.present
               THEN UNCHANGED <<camera_limits, panicked>>
               ELSE LET limits ==
                            [camera_limits EXCEPT
                                 !.max_zoom_scale =
                                     OptimalScaleFor(camera_limits.level_diagonal)]
                        radius == UpdateMovementRadius(limits, ortho_scale)
                    IN  /\ panicked' = radius.panics
                        /\ camera_limits' = radius.limits
    /\ UNCHANGED <<levels, current_level_index, levels_changed, camera_transform,
                   ortho_scale, projection_changed, rotation_state, pan_state, window, budget, orbit, recomputes>>

(***************************************************************************)
(* The app: each step is one system running, or the environment acting.    *)
(* Bevy leaves the order of these systems within a frame open.             *)
(***************************************************************************)
Next ==
    \/ \E size \in WindowSizes : WindowResized(size)
    \/ WindowClosed
    \/ \E size \in WindowSizes : WindowCreated(size)
    \/ \E arrow_left, arrow_right \in BOOLEAN :
           level_cycling_input_system(arrow_left, arrow_right)
    \/ \E keys \in MoveKeySets, delta_time \in MoveDeltas :
           camera_movement_system(keys, delta_time)
    \/ \E wheel \in WheelSteps : camera_zoom_system(<<wheel>>)
    \/ \E key_q, key_e \in BOOLEAN : camera_rotation_input_system(key_q, key_e)
    \/ \E button_events \in ButtonEvents, motion_events \in MotionEvents :
           camera_mouse_pan_system(button_events, motion_events)
    \/ \E delta_time \in Deltas : camera_rotation_animation_system(delta_time)
    \/ on_level_change_system
    \/ on_zoom_change_system
    \/ on_rotation_complete_system
    \/ on_window_resize_system

Spec == Init /\ [][Next]_vars

Rotating == ~IsStable(rotation_state.rotation_mode)

\* What a tick of camera_rotation_animation_system makes of the rotation mode.
CountDown(mode, delta_time) ==
    LET remaining == mode.remaining - ThisFrameRotation(mode.remaining, delta_time)
    IN  IF RotationFinished(remaining) THEN Stable
        ELSE [mode EXCEPT !.remaining = remaining]

\* The frames keep coming with time passing: camera_rotation_animation_system
\* is in the Update schedule, so while the app lives a rotation in progress
\* keeps being ticked with a positive delta.  The tick is given by what it
\* does to rotation_state.
PositiveTick ==
    /\ ~panicked
    /\ Rotating
    /\ \E delta_time \in {d \in Deltas : d > 0} :
           rotation_state' =
               [rotation_state EXCEPT
                    !.rotation_mode = CountDown(rotation_state.rotation_mode, delta_time)]

FairSpec == Spec /\ WF_rotation_state(PositiveTick)

(***************************************************************************)
(* Properties                                                              *)
(***************************************************************************)
\* C1: a rotation request that arrives while a rotation is in progress is
\* ignored: after camera_rotation_input_system has run, the mode, the
\* remaining angle and the focus point (and the camera) are what they were.
C1_RequestIgnoredWhileRotating ==
    [][\A key_q, key_e \in BOOLEAN :
          (Rotating /\ (key_q \/ key_e) /\ camera_rotation_input_system(key_q, key_e))
              => /\ rotation_state' = rotation_state
                 /\ camera_transform' = camera_transform]_vars

\* A request has been made, and ignored, half way through a rotation.
C1_Witness ==
    /\ Rotating
    /\ orbit.ignored
    /\ rotation_state.rotation_mode.remaining = 45

\* The yaw the rotation in progress (or the last one) has reached after
\* turning by "applied" degrees from where it started.
YawAfter(applied) == WrapYaw(orbit.yaw0 + orbit.direction * applied)

C2_Progress ==
    /\ rotation_state.rotation_mode.remaining >= 0
    /\ Rotating =>
           /\ orbit.active
           /\ rotation_state.rotation_mode.remaining > 0
           /\ orbit.applied + rotation_state.rotation_mode.remaining = 90
           /\ camera_transform.yaw = YawAfter(orbit.applied)
    /\ (~Rotating /\ orbit.direction # 0) =>
           /\ ~orbit.active
           /\ orbit.applied = 90
           /\ camera_transform.yaw = YawAfter(90)

C2_Tick(delta_time) ==
    LET mode == rotation_state.rotation_mode
        step == Min(mode.remaining, (180 * delta_time) \div 1000)
    IN  /\ orbit'.applied = orbit.applied + step
        /\ camera_transform'.yaw =
               WrapYaw(camera_transform.yaw
                       + (IF mode.kind = "Clockwise" THEN 0 - step ELSE step))
        /\ IF step = mode.remaining
           THEN rotation_state'.rotation_mode = Stable
           ELSE rotation_state'.rotation_mode = [mode EXCEPT !.remaining = @ - step]

\* C2: an animation tick during a rotation turns the camera by
\* min(remaining, 180 deg/s * dt); remaining never goes below 0; and the
\* angles applied from the request to the completion add up to exactly 90
\* degrees, so the rotation ends 90 degrees from where it started.
C2_RotationSumsTo90 ==
    /\ []C2_Progress
    /\ [][\A delta_time \in Deltas :
              (/\ Rotating
               /\ vars' # vars    \* a step that changes nothing satisfies [..]_vars
               /\ camera_rotation_animation_system(delta_time))
                  => C2_Tick(delta_time)]_vars

\* A clockwise rotation has run to its completion and left the camera at
\* yaw -135 degrees, 90 degrees clockwise of the initial -45.
C2_Witness ==
    /\ ~Rotating
    /\ orbit.direction = -1
    /\ orbit.yaw0 = -45
    /\ orbit.applied = 90
    /\ camera_transform.yaw = -135

\* C3: for the whole of a rotation the camera stays on the orbit of the
\* pivot captured at the request - the same height over it and the same
\* horizontal distance from it - whatever else runs in between (level
\* cycling, window resizes).  Stated for rotations requested after the
\* first framing of the level.
C3_StaysOnOrbit ==
    (~panicked /\ orbit.active /\ orbit.framed) =>
        OrbitOf(camera_transform.translation, rotation_state.focus_point)
            = [dist2 |-> orbit.dist2, height |-> orbit.height]

\* A step that changes the rotation mode of a rotation in progress is an
\* animation tick: it lowers remaining, or it ends the rotation in Stable
\* having applied all that remained.
C4_OnlyExit ==
    [][(Rotating /\ rotation_state'.rotation_mode # rotation_state.rotation_mode) =>
          \E delta_time \in Deltas :
              LET mode == rotation_state.rotation_mode
                  step == Min(mode.remaining, (180 * delta_time) \div 1000)
              IN  /\ camera_rotation_animation_system(delta_time)
                  /\ step > 0
                  /\ rotation_state'.rotation_mode =
                         IF step = mode.remaining THEN Stable
                         ELSE [mode EXCEPT !.remaining = @ - step]]_vars

\* C4: a rotation in progress runs to completion when ticks with a positive
\* time step keep coming (and the app is still there): it reaches Stable;
\* and the only way out of Clockwise / CounterClockwise is the rotation's
\* own countdown reaching 0.
C4_RunsToCompletion ==
    /\ Rotating ~> (~Rotating \/ panicked)
    /\ C4_OnlyExit

\* A counter-clockwise rotation has run to completion.
C4_Witness ==
    /\ ~Rotating
    /\ ~panicked
    /\ orbit.direction = 1
    /\ orbit.applied = 90

C5_Flag ==
    /\ recomputes <= 1
    /\ camera_limits.rotation_processed <=> recomputes = 1

C5_Steps ==
    \* completion clears the flag
    /\ (Rotating /\ ~Rotating') =>
           ~camera_limits'.rotation_processed /\ recomputes' = 0
    \* nothing else clears it
    /\ (camera_limits.rotation_processed /\ ~camera_limits'.rotation_processed) =>
           (Rotating /\ ~Rotating')
    \* a recomputation happens with the camera Stable and the flag clear,
    \* recomputes the three limits and sets the flag
    /\ (recomputes' = recomputes + 1) =>
           /\ ~Rotating /\ ~Rotating'
           /\ ~camera_limits.rotation_processed
           /\ camera_limits'.rotation_processed
           /\ camera_limits'.max_zoom_scale = OptimalScaleFor(camera_limits.level_diagonal)
           /\ camera_limits'.optimal_camera_position = OptimalPosition
           /\ camera_limits'.current_movement_radius =
                  calculate_movement_radius(camera_limits', ortho_scale)
    \* with the flag set, on_rotation_complete_system recomputes nothing
    /\ (camera_limits.rotation_processed /\ on_rotation_complete_system) =>
           camera_limits' = camera_limits

C6_ZoomLimitsOrdered ==
    ~panicked => camera_limits.min_zoom_scale < camera_limits.max_zoom_scale

\* C7: once the level has been framed, the orthographic scale lies within
\* [min_zoom_scale, max_zoom_scale] of the limits then in force, after any
\* zooms, rotations, level changes and resizes.
C7_ScaleWithinLimits ==
    (~panicked /\ ~camera_limits.needs_recalculation) =>
        /\ camera_limits.min_zoom_scale <= ortho_scale
        /\ ortho_scale <= camera_limits.max_zoom_scale

\* The squared distance of the camera from optimal_camera_position.
DistanceFromOptimal2 ==
    LET d == Vec3Sub(camera_transform.translation, camera_limits.optimal_camera_position)
    IN  Add(Mul(d.x, d.x), Add(Mul(d.y, d.y), Mul(d.z, d.z)))

\* C8: once the level has been framed, the camera is never further from
\* optimal_camera_position than current_movement_radius, after any movement
\* and pan inputs.
C8_WithinMovementRadius ==
    (/\ ~panicked
     /\ ~camera_limits.needs_recalculation
     /\ camera_limits.current_movement_radius # NaN) =>
        Leq(DistanceFromOptimal2,
            Num(camera_limits.current_movement_radius
                    * camera_limits.current_movement_radius))

\* C9: no operation aborts: calculate_movement_radius is never called with
\* min_zoom_scale > max_zoom_scale (f32::clamp would panic), and the current
\* level index stays inside the registry.
C9_NoAbort ==
    /\ ~panicked
    /\ current_level_index \in 0 .. (level_count(levels) - 1)

\* C10: a framing recomputation that falls due while there is no window is
\* not lost: once the first level has been framed, as long as the cached
\* framing is not that of the current level, the recomputation for the level
\* change is still pending.
C10_FramingNotLost ==
    (~panicked /\ ~camera_limits.needs_recalculation) =>
        \/ levels_changed
        \/ camera_limits.level_diagonal
               = get_level_diagonal_extent(current_level(levels, current_level_index))

(***************************************************************************)
(* The Update schedule.  Each plugin adds its systems to the one Update    *)
(* schedule of the app; in a tick every system of the schedule runs once,  *)
(* in any order that respects the ordering constraints the plugins gave.   *)
(***************************************************************************)

LevelPluginSystems ==
    {"level_cycling_input_system", "level_switching_system",
     "update_level_name_display", "position_camera_for_level_system"}

InputPluginSystems ==
    {"level_cycling_input_system", "camera_movement_system", "camera_zoom_system",
     "camera_rotation_input_system", "camera_mouse_pan_system",
     "debug_camera_logging_system"}

RenderingPluginSystems ==
    {"camera_movement_system", "camera_zoom_system", "camera_rotation_input_system",
     "camera_rotation_animation_system", "update_fps_display",
     "debug_camera_logging_system"}

UpdateSystems == LevelPluginSystems \cup InputPluginSystems \cup RenderingPluginSystems

\* A schedule without any ordering constraint.
ordering_none == {}

\* The ordering constraints of the schedule, as pairs <<system, predecessor>>:
\* the system runs after its predecessor.
ordering ==
    {<<"position_camera_for_level_system", "camera_rotation_animation_system">>}

Predecessors(system) == {c[2] : c \in {d \in ordering : d[1] = system}}

\* The executor runs a system that has not run in this tick and whose
\* predecessors all have.
RunSystem(system) ==
    /\ system \notin ran
    /\ Predecessors(system) \subseteq ran
    /\ ran' = ran \cup {system}
    /\ UNCHANGED <<probe, directory>>
    /\ UNCHANGED app_vars

\* Every system has run: the tick is over and the next one begins.
EndTick ==
    /\ ran = UpdateSystems
    /\ ran' = {}
    /\ UNCHANGED <<probe, directory>>
    /\ UNCHANGED app_vars

TickNext ==
    \/ \E system \in UpdateSystems : RunSystem(system)
    \/ EndTick

TickSpec == Init /\ [][TickNext]_vars

Runs(system) == system \notin ran /\ system \in ran'

MaxDim == 3

Dims == 1 .. MaxDim

\* probe: the last call, the level it was made on, its argument, whether it
\* returned ("ok") or panicked ("panic"), and what it returned.
Probe(call, level, arg, outcome, result) ==
    [call |-> call, level |-> level, arg |-> arg, outcome |-> outcome,
     result |-> result]

\* f32 division q / (width - 1): 0.0 / 0.0 when the dimension is 1.
NormIsNaN(dimension) == dimension = 1

\* Level::new: the gradient 1 + 3 * (q_norm + r_norm) / 2, written to
\* heights[(r, q)] of an Array2 of shape (height, width).
Level_new(name, width, height) ==
    MakeLevel(name, width, height,
        [row \in 1..height |-> [col \in 1..width |->
            LET q == col - 1
                r == row - 1
            IN  IF NormIsNaN(width) \/ NormIsNaN(height)
                THEN NaN
                ELSE Q + (3 * Q * (q * (height - 1) + r * (width - 1)))
                             \div (2 * (width - 1) * (height - 1))]])

\* The height data of a record: an Array2 of shape (rows, cols), every entry
\* different.
StoredHeights(rows, cols) ==
    [row \in 1..rows |-> [col \in 1..cols |-> Q + 10 * (row - 1) * MaxDim + 10 * (col - 1)]]

\* toml::from_str::<Level>: the fields of the record as they stand; width and
\* height are not compared with the shape of heights.
Level_from_toml(name, width, height, rows, cols) ==
    MakeLevel(name, width, height, StoredHeights(rows, cols))

\* The shape (rows, cols) of level.heights.
ArrayShape(level) ==
    <<Len(level.heights), IF Len(level.heights) = 0 THEN 0 ELSE Len(level.heights[1])>>

\* self.heights[(hex.y, hex.x)] is reached and indexes outside the array:
\* ndarray panics.
IndexPanics(level, hex) ==
    /\ hex.x >= 0 /\ hex.x < level.width /\ hex.y >= 0 /\ hex.y < level.height
    /\ ~(hex.y < ArrayShape(level)[1] /\ hex.x < ArrayShape(level)[2])

HasLevel == probe.call # "none"

CallLevelNew(width, height) ==
    /\ ~HasLevel
    /\ probe' = Probe("Level::new", Level_new("New", width, height), <<>>, "ok", <<>>)
    /\ UNCHANGED <<ran, directory>>
    /\ UNCHANGED app_vars

CallFromToml(width, height, rows, cols) ==
    /\ ~HasLevel
    /\ probe' = Probe("toml::from_str", Level_from_toml("Record", width, height, rows, cols),
                      <<>>, "ok", <<>>)
    /\ UNCHANGED <<ran, directory>>
    /\ UNCHANGED app_vars

CallGetHeight(hex) ==
    /\ HasLevel
    /\ probe' = IF IndexPanics(probe.level, hex)
                THEN Probe("get_height", probe.level, hex, "panic", <<>>)
                ELSE Probe("get_height", probe.level, hex, "ok",
                           get_height(probe.level, hex))
    /\ UNCHANGED <<ran, directory>>
    /\ UNCHANGED app_vars

CenterPanics(level) ==
    \E i \in 1..Len(get_center_hexes(level)) : IndexPanics(level, get_center_hexes(level)[i])

CallGetCenterHexes ==
    /\ HasLevel
    /\ probe' = Probe("get_center_hexes", probe.level, <<>>, "ok",
                      get_center_hexes(probe.level))
    /\ UNCHANGED <<ran, directory>>
    /\ UNCHANGED app_vars

CallGetCenterWorldPos ==
    /\ HasLevel
    /\ probe' = IF CenterPanics(probe.level)
                THEN Probe("get_center_world_pos", probe.level, <<>>, "panic", <<>>)
                ELSE Probe("get_center_world_pos", probe.level, <<>>, "ok",
                           get_center_world_pos(probe.level))
    /\ UNCHANGED <<ran, directory>>
    /\ UNCHANGED app_vars

LevelNext ==
    \/ \E width, height \in Dims : CallLevelNew(width, height)
    \/ \E width, height, rows, cols \in Dims : CallFromToml(width, height, rows, cols)
    \/ \E q, r \in -1 .. MaxDim : CallGetHeight(Hex(q, r))
    \/ CallGetCenterHexes
    \/ CallGetCenterWorldPos

LevelSpec == Init /\ [][LevelNext]_vars

InGrid(level, hex) ==
    hex.x >= 0 /\ hex.x < level.width /\ hex.y >= 0 /\ hex.y < level.height

\* C12: get_height returns the stored height of a cell inside the grid and 0
\* for every other coordinate, and never fails, also on a record whose width
\* and height disagree with the shape of its heights array.
C12_GetHeightTotal ==
    probe.call = "get_height" =>
        /\ probe.outcome = "ok"
        /\ probe.result = IF InGrid(probe.level, probe.arg)
                          THEN probe.level.heights[probe.arg.y + 1][probe.arg.x + 1]
                          ELSE 0

\* C13: every height Level::new fills in is a finite number in [1, 4], for
\* every width and height of at least 1.
C13_NewHeightsInRange ==
    probe.call = "Level::new" =>
        \A row \in 1..probe.level.height : \A col \in 1..probe.level.width :
            /\ probe.level.heights[row][col] # NaN
            /\ probe.level.heights[row][col] >= Q
            /\ probe.level.heights[row][col] <= 4 * Q

\* The shape of the heights array is the one the width and height fields give.
ShapeAgrees(level) == ArrayShape(level) = <<level.height, level.width>>

\* The cells next to the true centre ((width - 1) / 2, (height - 1) / 2) of
\* the grid: at most half a cell from it in q and in r.
CellsAtCentre(level) ==
    {hex \in {Hex(q, r) : q \in 0..(level.width - 1), r \in 0..(level.height - 1)} :
        /\ Abs(2 * hex.x - (level.width - 1)) <= 1
        /\ Abs(2 * hex.y - (level.height - 1)) <= 1}

\* mean is the sum divided by count, rounded towards zero.
IsMeanOf(mean, sum, count) == count * mean <= sum /\ sum < count * (mean + 1)

C14_CenterCells ==
    probe.call = "get_center_hexes" =>
        LET level == probe.level
            cells == {probe.result[i] : i \in 1..Len(probe.result)}
        IN  /\ Len(probe.result) =
                   CASE level.width % 2 = 1 /\ level.height % 2 = 1 -> 1
                     [] level.width % 2 = 0 /\ level.height % 2 = 0 -> 4
                     [] OTHER -> 2
            /\ Cardinality(cells) = Len(probe.result)
            /\ \A hex \in cells : InGrid(level, hex)
            /\ cells = CellsAtCentre(level)
            /\ level.width = 1 /\ level.height = 1 => probe.result = <<Hex(0, 0)>>

C14_CenterMean ==
    probe.call = "get_center_world_pos" /\ ShapeAgrees(probe.level) =>
        LET level == probe.level
            cells == CellsAtCentre(level)
            count == Cardinality(cells)
            RECURSIVE Sum(_, _)
            Sum(f(_), set) ==
                IF set = {} THEN 0
                ELSE LET hex == CHOOSE h \in set : TRUE
                     IN  f(hex) + Sum(f, set \ {hex})
            X(hex) == hex_to_world_pos(hex).x
            Y(hex) == level.heights[hex.y + 1][hex.x + 1]
            Z(hex) == hex_to_world_pos(hex).y
        IN  /\ probe.outcome = "ok"
            /\ IsMeanOf(probe.result.x[1], Sum(X, cells), count)
            /\ IsMeanOf(probe.result.z[1], Sum(Z, cells), count)
            /\ IF \E hex \in cells : Y(hex) = NaN
               THEN probe.result.y = Num(NaN)
               ELSE IsMeanOf(probe.result.y[1], Sum(Y, cells), count)

\* C14: for every width and height of at least 1, get_center_hexes returns
\* 1 cell (both odd), 4 cells (both even) or 2 cells (one even), all inside
\* the grid and exactly the cells next to the true centre of the grid, (0, 0)
\* for a 1x1 level; get_center_world_pos is the unweighted mean of the 3D
\* positions of those cells.
C14_Center == C14_CenterCells /\ C14_CenterMean

\* The mean over the four centre cells of an even x even level has been taken.
C14_Witness ==
    /\ probe.call = "get_center_world_pos"
    /\ probe.outcome = "ok"
    /\ ShapeAgrees(probe.level)
    /\ Cardinality(CellsAtCentre(probe.level)) = 4
    /\ probe.result.y # Num(NaN)

(***************************************************************************)
(* The focus point on its own: calculate_camera_focus_point is called for  *)
(* a level, a camera position and a forward direction.                     *)
(***************************************************************************)

\* transform.forward() of a camera pitched and yawed by multiples of 45
\* degrees, doubled: R_y(yaw) * R_x(pitch) applied to -Z.
LookDirection(pitch, yaw) ==
    RotateY(Vec3(Zero, Sin2(pitch), Neg(Cos2(pitch))), yaw)

\* Level with the horizon, the isometric tilt, straight down, and upwards.
Pitches == {0, -45, -90, 45}
Yaws == {0, 45, 90}

\* A single cell built by Level::new, a single cell of height 1 read from a
\* record, a 2x2 slope, a loaded level, and a record of two cells whose
\* heights array holds one.
FocusLevels ==
    {Level_new("Unit", 1, 1), Level_from_toml("Pillar", 1, 1, 1, 1),
     Level_new("Slope", 2, 2), LoadedLevels[1],
     Level_from_toml("Short", 2, 1, 1, 1)}

\* Over cell (0, 0), over cell (1, 0), where setup_camera puts the camera,
\* beside the grid, and under the ground.
CameraPositions ==
    {Vec3(Zero, Num(10 * Q), Zero),
     Vec3(Num(hex_to_world_pos(Hex(1, 0)).x), Num(10 * Q), Zero),
     SetupTransform.translation,
     Vec3(Num(-5 * Q), Num(3 * Q), Num(4 * Q)),
     Vec3(Zero, Num(-2 * Q), Zero)}

CallFocusPoint(level, camera_pos, forward_dir) ==
    /\ ~HasLevel
    /\ probe' = IF RaycastPanics(camera_pos, forward_dir, level)
                THEN Probe("calculate_camera_focus_point", level,
                           [camera_pos |-> camera_pos, forward_dir |-> forward_dir],
                           "panic", <<>>)
                ELSE Probe("calculate_camera_focus_point", level,
                           [camera_pos |-> camera_pos, forward_dir |-> forward_dir],
                           "ok",
                           [point |-> FocusPoint(camera_pos, forward_dir, level),
                            divisions |->
                                DivisionsByDirectionY(camera_pos, forward_dir, level)])
    /\ UNCHANGED <<ran, directory>>
    /\ UNCHANGED app_vars

\* Two cells side by side, the second the taller one, and the same with the
\* heights exchanged; two loaded levels.
RaycastLevels ==
    {MakeLevel("StepUp", 2, 1, <<<<100, 300>>>>),
     MakeLevel("StepDown", 2, 1, <<<<300, 100>>>>),
     LoadedLevels[1], LoadedLevels[3]}

\* Beyond cell (1, 0) and before cell (0, 0) on the x axis, 10 units up: a
\* ray going down at 45 degrees along the axis passes over the centre of the
\* one cell at height 3 and close to the centre of the other at height 1.
RaycastPositions ==
    CameraPositions \cup
        {Vec3(Num(hex_to_world_pos(Hex(1, 0)).x + 7 * Q), Num(10 * Q), Zero),
         Vec3(Num(-7 * Q), Num(10 * Q), Zero)}

CallRaycast(level, camera_pos, direction) ==
    /\ ~HasLevel
    /\ probe' = IF RaycastPanics(camera_pos, direction, level)
                THEN Probe("raycast_hex_surfaces", level,
                           [camera_pos |-> camera_pos, direction |-> direction],
                           "panic", <<>>)
                ELSE Probe("raycast_hex_surfaces", level,
                           [camera_pos |-> camera_pos, direction |-> direction],
                           "ok", raycast_hex_surfaces(camera_pos, direction, level))
    /\ UNCHANGED <<ran, directory>>
    /\ UNCHANGED app_vars

FocusNext ==
    \/ \E level \in RaycastLevels, camera_pos \in RaycastPositions,
          pitch \in Pitches, yaw \in Yaws \cup {180, 270} :
           CallRaycast(level, camera_pos, LookDirection(pitch, yaw))
    \/ \E level \in FocusLevels, camera_pos \in CameraPositions,
          pitch \in Pitches, yaw \in Yaws :
           CallFocusPoint(level, camera_pos, LookDirection(pitch, yaw))

FocusSpec == Init /\ [][FocusNext]_vars

Defined(point) == point.x # Num(NaN) /\ point.y # Num(NaN) /\ point.z # Num(NaN)

\* The point lies on the top of a cell of the level.
OnCellTop(point, level) ==
    \E q \in 0..(level.width - 1), r \in 0..(level.height - 1) :
        /\ level.heights[r + 1][q + 1] # NaN
        /\ point.y = Num(level.heights[r + 1][q + 1])
        /\ is_inside_regular_hexagon(
               [x |-> point.x, y |-> point.z],
               [x |-> Num(hex_to_world_pos(Hex(q, r)).x),
                y |-> Num(hex_to_world_pos(Hex(q, r)).y)],
               Num(Q))

\* C15: for every level and camera position, a forward direction with
\* |direction.y| < 0.001 gives the point ahead, camera_pos + 10 * forward,
\* and no division by direction.y is made; every other ray gives a defined
\* point: a point on the top of a cell, else the point where the ray meets
\* the ground plane y = 0.
C15_HorizontalRayFallsBack ==
    probe.call = "calculate_camera_focus_point" =>
        LET camera_pos == probe.arg.camera_pos
            forward_dir == probe.arg.forward_dir
            level == probe.level
        IN  IF Sgn(Sub(Scale(AbsN(forward_dir.y), 1000), Num(2))) < 0
            THEN /\ probe.outcome = "ok"
                 /\ probe.result.divisions = 0
                 /\ probe.result.point.x = Add(camera_pos.x, Scale(forward_dir.x, 5 * Q))
                 /\ probe.result.point.y = Add(camera_pos.y, Scale(forward_dir.y, 5 * Q))
                 /\ probe.result.point.z = Add(camera_pos.z, Scale(forward_dir.z, 5 * Q))
            ELSE ShapeAgrees(level) =>
                 /\ probe.outcome = "ok"
                 /\ probe.result.divisions >= 1
                 /\ Defined(probe.result.point)
                 /\ \/ OnCellTop(probe.result.point, level)
                    \/ probe.result.point.y = Zero

\* A horizontal ray over a level has been given its point ahead.
C15_Witness ==
    /\ probe.call = "calculate_camera_focus_point"
    /\ probe.arg.forward_dir.y = Zero
    /\ probe.outcome = "ok"
    /\ probe.result.point.y = probe.arg.camera_pos.y
    /\ probe.result.point # probe.arg.camera_pos

Down == Vec3(Zero, <<-2, 0>>, Zero)

\* C16: a straight-down ray from directly above the single cell of a 1x1
\* level, the one Level::new builds included, gives the point on the cell's
\* top (y = the cell's height) and not the ground-plane point; in general
\* the top of a cell that contains its own intersection wins over the
\* ground plane.
C16_TopSurfaceFirst ==
    probe.call = "calculate_camera_focus_point" /\ ShapeAgrees(probe.level) =>
        LET camera_pos == probe.arg.camera_pos
            forward_dir == probe.arg.forward_dir
            level == probe.level
        IN  /\ (/\ level.width = 1 /\ level.height = 1
                /\ forward_dir = Down
                /\ camera_pos.x = Zero /\ camera_pos.z = Zero
                /\ Sgn(camera_pos.y) > 0)
               => /\ probe.result.point.y # Zero
                  /\ OnCellTop(probe.result.point, level)
            /\ (/\ ~NearlyHorizontal(forward_dir)
                /\ Hits(camera_pos, forward_dir, level) # {})
               => OnCellTop(probe.result.point, level)

(***************************************************************************)
(* Persistence: levels are written to a directory as TOML documents and    *)
(* the directory is loaded into a LevelsResource.                          *)
(***************************************************************************)

\* An f32 as the TOML writer prints it: nan, or a decimal literal (here with
\* two places after the point).
FloatLiteral(value) ==
    IF value = NaN THEN [nan |-> TRUE, whole |-> 0, frac |-> 0]
    ELSE [nan |-> FALSE, whole |-> value \div Q, frac |-> value % Q]

\* The f32 the TOML reader makes of a literal.
ParseFloat(literal) ==
    IF literal.nan THEN NaN ELSE literal.whole * Q + literal.frac

\* The heights table with data written column by column.
toml_to_string_by_columns(level) ==
    LET rows == ArrayShape(level)[1]
        cols == ArrayShape(level)[2]
    IN  [kind |-> "table", name |-> level.name, width |-> level.width,
         height |-> level.height,
         heights |-> [v |-> 1, dim |-> <<rows, cols>>,
                      data |-> [i \in 1..(rows * cols) |->
                                   FloatLiteral(level.heights[((i - 1) % rows) + 1]
                                                             [((i - 1) \div rows) + 1])]]]

\* toml::to_string(self): name, width, height, and heights as ndarray writes
\* an array: its version, its shape and its elements row by row.
toml_to_string(level) ==
    LET rows == ArrayShape(level)[1]
        cols == ArrayShape(level)[2]
    IN  [kind |-> "table", name |-> level.name, width |-> level.width,
         height |-> level.height,
         heights |-> [v |-> 1, dim |-> <<rows, cols>>,
                      data |-> [i \in 1..(rows * cols) |->
                                   FloatLiteral(level.heights[((i - 1) \div cols) + 1]
                                                             [((i - 1) % cols) + 1])]]]

\* toml::from_str::<Level> succeeds: the text is a TOML table with the four
\* fields, and the array's data has as many elements as its shape says.
Parses(content) ==
    /\ content.kind = "table"
    /\ {"name", "width", "height", "heights"} \subseteq DOMAIN content
    /\ content.heights.v = 1
    /\ Len(content.heights.data) = content.heights.dim[1] * content.heights.dim[2]

\* The Level toml::from_str makes of a document that parses.
toml_from_str(content) ==
    LET rows == content.heights.dim[1]
        cols == content.heights.dim[2]
    IN  MakeLevel(content.name, content.width, content.height,
            [row \in 1..rows |-> [col \in 1..cols |->
                ParseFloat(content.heights.data[(row - 1) * cols + col])]])

\* Text that is not TOML; a document whose array holds fewer elements than
\* its shape says.
Garbage == [kind |-> "garbage"]
ShortData ==
    [kind |-> "table", name |-> "Bravo", width |-> 2, height |-> 2,
     heights |-> [v |-> 1, dim |-> <<2, 2>>,
                  data |-> <<FloatLiteral(Q), FloatLiteral(Q), FloatLiteral(Q)>>]]

\* A file: whether fs::read_to_string succeeds on it, its text, and the level
\* save_to_directory wrote it from (none for a file put there otherwise).
File(readable, content, origin) ==
    [readable |-> readable, content |-> content, origin |-> origin]

NoOrigin == [name |-> ""]

\* Files that did not come from save_to_directory: malformed ones, an
\* unreadable one, and a hand-written level.
ForeignFiles ==
    {File(TRUE, Garbage, NoOrigin), File(TRUE, ShortData, NoOrigin),
     File(FALSE, Garbage, NoOrigin),
     File(TRUE, toml_to_string(LoadedLevels[1]), NoOrigin)}

\* File names: the stem and the extension path.extension() reports.
FileNames ==
    {[stem |-> "a", extension |-> "toml"], [stem |-> "b", extension |-> "toml"],
     [stem |-> "c", extension |-> "toml"], [stem |-> "notes", extension |-> "txt"]}

\* The levels saved: a slope, the single NaN cell of Level::new(_, 1, 1) and
\* a level of three columns and two rows.
SavedLevels ==
    {Level_new("Zulu", 2, 2), Level_new("Bravo", 1, 1),
     MakeLevel("alpha", 3, 2, LoadedLevels[3].heights)}

\* String::cmp on the names in use: byte order, capitals before small letters.
NameOrder == <<"Alpha", "Bravo", "Default Level", "Zulu", "alpha">>
NameRank(name) == CHOOSE i \in 1..Len(NameOrder) : NameOrder[i] = name

\* levels.sort_by(|a, b| a.name.cmp(&b.name)): a stable sort.
RECURSIVE SortByName(_)
SortByName(list) ==
    IF list = <<>> THEN <<>>
    ELSE LET least == SetMin({NameRank(list[i].name) : i \in 1..Len(list)})
             first == SetMin({i \in 1..Len(list) : NameRank(list[i].name) = least})
         IN  <<list[first]>> \o
             SortByName([i \in 1..(Len(list) - 1) |->
                            IF i < first THEN list[i] ELSE list[i + 1]])

\* A registry of no level at all.
with_default_empty == [levels |-> <<>>, current_level_index |-> 0]

\* LevelsResource::with_default()
with_default ==
    [levels |-> <<Level_new("Default Level", 10, 10)>>, current_level_index |-> 0]

\* The file is pushed to the list: a .toml file that is read and parses.
Loads(file_name, file) ==
    /\ file_name.extension = "toml"
    /\ file.readable
    /\ Parses(file.content)

\* The levels pushed, in the order read_dir gives the entries.
RECURSIVE LoadedFrom(_, _)
LoadedFrom(files, entries) ==
    IF entries = <<>> THEN <<>>
    ELSE (IF Loads(Head(entries), files[Head(entries)])
          THEN <<toml_from_str(files[Head(entries)].content)>>
          ELSE <<>>) \o LoadedFrom(files, Tail(entries))

Ok(value) == [ok |-> TRUE, value |-> value]
Err == [ok |-> FALSE]

\* The loader without its sort.
load_levels_from_directory_unsorted(levels_dir, entries) ==
    IF levels_dir.kind = "missing" THEN Ok(with_default)
    ELSE IF levels_dir.kind = "unlistable" THEN Err
    ELSE LET loaded == LoadedFrom(levels_dir.files, entries)
         IN  IF loaded = <<>> THEN Ok(with_default)
             ELSE Ok([levels |-> loaded, current_level_index |-> 0])

\* load_levels_from_directory, on the directory and on the order in which
\* read_dir yields its entries.
load_levels_from_directory(levels_dir, entries) ==
    IF levels_dir.kind = "missing" THEN Ok(with_default)
    ELSE IF levels_dir.kind = "unlistable" THEN Err
    ELSE LET loaded == LoadedFrom(levels_dir.files, entries)
         IN  IF loaded = <<>> THEN Ok(with_default)
             ELSE Ok([levels |-> SortByName(loaded), current_level_index |-> 0])

\* The orders read_dir can yield the entries in.
EntryOrders(files) ==
    {entries \in [1..Cardinality(DOMAIN files) -> DOMAIN files] :
        \A i, j \in DOMAIN entries : i # j => entries[i] # entries[j]}

WriteFile(files, file_name, file) ==
    [name \in DOMAIN files \cup {file_name} |->
        IF name = file_name THEN file ELSE files[name]]

NothingCalled == probe.call = "none"

\* mkdir
MakeDirectory ==
    /\ NothingCalled
    /\ directory.kind = "missing"
    /\ directory' = [directory EXCEPT !.kind = "directory"]
    /\ UNCHANGED <<ran, probe>>
    /\ UNCHANGED app_vars

\* The directory can no longer be listed: fs::read_dir fails on it.
RevokeRead ==
    /\ NothingCalled
    /\ directory.kind = "directory"
    /\ directory' = [directory EXCEPT !.kind = "unlistable"]
    /\ UNCHANGED <<ran, probe>>
    /\ UNCHANGED app_vars

\* Something other than save_to_directory writes a file.
PutFile(file_name, file) ==
    /\ NothingCalled
    /\ directory.kind = "directory"
    /\ directory' = [directory EXCEPT !.files = WriteFile(@, file_name, file)]
    /\ UNCHANGED <<ran, probe>>
    /\ UNCHANGED app_vars

\* level.save_to_directory(directory, filename): creates the directory and
\* writes (or overwrites) the file.
save_to_directory(level, file_name) ==
    /\ NothingCalled
    /\ directory' = [kind |-> IF directory.kind = "missing" THEN "directory"
                               ELSE directory.kind,
                     files |-> WriteFile(directory.files, file_name,
                                         File(TRUE, toml_to_string(level), level))]
    /\ UNCHANGED <<ran, probe>>
    /\ UNCHANGED app_vars

CallLoadLevels(entries) ==
    /\ NothingCalled
    /\ LET returned == load_levels_from_directory(directory, entries)
       IN  probe' = IF returned.ok
                    THEN Probe("load_levels_from_directory", <<>>, directory, "ok",
                               returned.value)
                    ELSE Probe("load_levels_from_directory", <<>>, directory, "err", <<>>)
    /\ UNCHANGED <<ran, directory>>
    /\ UNCHANGED app_vars

LoaderNext ==
    \/ MakeDirectory
    \/ RevokeRead
    \/ \E file_name \in FileNames, file \in ForeignFiles : PutFile(file_name, file)
    \/ \E level \in SavedLevels, file_name \in FileNames : save_to_directory(level, file_name)
    \/ \E entries \in EntryOrders(directory.files) : CallLoadLevels(entries)

LoaderSpec == Init /\ [][LoaderNext]_vars

LoadCalled == probe.call = "load_levels_from_directory"

\* The names of the files of the directory the loader pushes a level for.
LoadingFiles(dir) == {name \in DOMAIN dir.files : Loads(name, dir.files[name])}

\* How many entries of the list satisfy the test.
Count(list, Test(_)) == Cardinality({i \in 1..Len(list) : Test(list[i])})

\* C17: loading a directory that does not exist, or one that holds no .toml
\* file that is read and parsed, returns a registry of exactly one level,
\* "Default Level" of 10x10, with current_level_index 0; a returned registry
\* is never empty.
C17_DefaultWhenNothingLoads ==
    LoadCalled =>
        /\ probe.outcome = "ok" => Len(probe.result.levels) >= 1
        /\ (\/ probe.arg.kind = "missing"
            \/ probe.arg.kind = "directory" /\ LoadingFiles(probe.arg) = {})
           => /\ probe.outcome = "ok"
              /\ Len(probe.result.levels) = 1
              /\ probe.result.levels[1].name = "Default Level"
              /\ probe.result.levels[1].width = 10
              /\ probe.result.levels[1].height = 10
              /\ ArrayShape(probe.result.levels[1]) = <<10, 10>>
              /\ probe.result.current_level_index = 0

\* A directory holding .toml files, none of which loads, has been loaded.
C17_Witness ==
    /\ LoadCalled
    /\ probe.arg.kind = "directory"
    /\ \E name \in DOMAIN probe.arg.files : name.extension = "toml"
    /\ LoadingFiles(probe.arg) = {}
    /\ probe.outcome = "ok"

\* C18: a .toml file that cannot be read or parsed is skipped and the load
\* does not fail: when the directory holds a well-formed .toml file, the
\* registry holds exactly the levels of its well-formed .toml files, each
\* once per file, sorted by name, with index 0 selected, whatever malformed
\* files lie beside them.
C18_MalformedSkipped ==
    LoadCalled /\ probe.arg.kind = "directory" /\ LoadingFiles(probe.arg) # {} =>
        LET files == probe.arg.files
            loading == LoadingFiles(probe.arg)
        IN  /\ probe.outcome = "ok"
            /\ probe.result.current_level_index = 0
            /\ Len(probe.result.levels) = Cardinality(loading)
            /\ \A name \in loading :
                   LET level == toml_from_str(files[name].content)
                       Same(other) == other = level
                   IN  Count(probe.result.levels, Same) =
                           Cardinality({n \in loading :
                                           toml_from_str(files[n].content) = level})
            /\ \A i, j \in 1..Len(probe.result.levels) :
                   i < j => NameRank(probe.result.levels[i].name)
                                <= NameRank(probe.result.levels[j].name)

\* Two well-formed files have been loaded from beside a malformed .toml file.
C18_Witness ==
    /\ LoadCalled
    /\ probe.outcome = "ok"
    /\ Cardinality(LoadingFiles(probe.arg)) = 2
    /\ \E name \in DOMAIN probe.arg.files :
           /\ name.extension = "toml"
           /\ ~Loads(name, probe.arg.files[name])
    /\ probe.result.levels[1].name # probe.result.levels[2].name

\* |a - b| < 0.001, or both NaN: the value read back is the value written.
HeightsClose(a, b) ==
    IF a = NaN \/ b = NaN THEN a = b ELSE Abs(a - b) * 1000 < Q

SameLevel(a, b) ==
    /\ a.name = b.name
    /\ a.width = b.width
    /\ a.height = b.height
    /\ ArrayShape(a) = ArrayShape(b)
    /\ \A row \in 1..ArrayShape(a)[1] : \A col \in 1..ArrayShape(a)[2] :
           HeightsClose(a.heights[row][col], b.heights[row][col])

\* Every file of the directory is a .toml file written by save_to_directory.
AllSaved(dir) ==
    /\ dir.kind = "directory"
    /\ DOMAIN dir.files # {}
    /\ \A name \in DOMAIN dir.files :
           name.extension = "toml" /\ dir.files[name].origin # NoOrigin

MinZoomScales == {50, 100}
MaxZoomScales == {100, 500, 1000}
LevelDiagonals == {0, 1000, 1735}
Scales == {0, 50, 75, 100, 300, 500, 750, 1000, 2000}

CallMovementRadius(min_zoom_scale, max_zoom_scale, level_diagonal, current_scale) ==
    LET limits == [DefaultCameraLimits EXCEPT !.min_zoom_scale = min_zoom_scale,
                                               !.max_zoom_scale = max_zoom_scale,
                                               !.level_diagonal = level_diagonal]
    IN  /\ probe' = IF MovementRadiusPanics(limits)
                    THEN Probe("calculate_movement_radius", <<>>,
                               [limits |-> limits, current_scale |-> current_scale],
                               "panic", <<>>)
                    ELSE Probe("calculate_movement_radius", <<>>,
                               [limits |-> limits, current_scale |-> current_scale],
                               "ok", calculate_movement_radius(limits, current_scale))
        /\ UNCHANGED <<ran, directory>>
        /\ UNCHANGED app_vars

RadiusNext ==
    \E min_zoom_scale \in MinZoomScales, max_zoom_scale \in MaxZoomScales,
       level_diagonal \in LevelDiagonals, current_scale \in Scales :
        CallMovementRadius(min_zoom_scale, max_zoom_scale, level_diagonal, current_scale)

RadiusSpec == Init /\ [][RadiusNext]_vars

RadiusCalled == probe.call = "calculate_movement_radius"

\* The limits of the call have min_zoom_scale < max_zoom_scale.
LimitsOrdered == probe.arg.limits.min_zoom_scale < probe.arg.limits.max_zoom_scale

\* The value of one call: level_diagonal/2 at or below min_zoom_scale, 0 at or
\* above max_zoom_scale, the linear interpolation between, within
\* [0, level_diagonal/2].
C20_Value ==
    RadiusCalled /\ LimitsOrdered =>
        LET limits == probe.arg.limits
            scale == probe.arg.current_scale
            half == limits.level_diagonal \div 2
            span == limits.max_zoom_scale - limits.min_zoom_scale
        IN  /\ probe.outcome = "ok"
            /\ probe.result >= 0 /\ probe.result <= half
            /\ scale <= limits.min_zoom_scale => probe.result = half
            /\ scale >= limits.max_zoom_scale => probe.result = 0
            /\ (limits.min_zoom_scale < scale /\ scale < limits.max_zoom_scale) =>
                   /\ probe.result * span <= (limits.max_zoom_scale - scale) * half
                   /\ (limits.max_zoom_scale - scale) * half < (probe.result + 1) * span

\* Two calls in a row on the same limits, the second at a scale at least as
\* large: its radius is not larger.
C20_Step ==
    (/\ RadiusCalled /\ LimitsOrdered
     /\ probe'.call = "calculate_movement_radius"
     /\ probe'.arg.limits = probe.arg.limits
     /\ probe'.arg.current_scale >= probe.arg.current_scale)
    => probe'.result <= probe.result

\* C20: for limits with min_zoom_scale < max_zoom_scale and every current
\* scale, calculate_movement_radius returns level_diagonal/2 at scale <=
\* min_zoom_scale, 0 at scale >= max_zoom_scale and the linear interpolation
\* in between; the result lies in [0, level_diagonal/2] and does not
\* increase as the scale increases.
C20_MovementRadiusInterpolates == []C20_Value /\ [][C20_Step]_vars

\* A radius strictly between 0 and level_diagonal/2 has been returned.
C20_Witness ==
    /\ RadiusCalled
    /\ LimitsOrdered
    /\ probe.outcome = "ok"
    /\ probe.result > 0
    /\ probe.result < probe.arg.limits.level_diagonal \div 2

(***************************************************************************)
(* The framing helpers on their own: calculate_optimal_scale,              *)
(* calculate_optimal_camera_position, get_viewport_size_for_orientation    *)
(* and is_inside_regular_hexagon are called on their arguments.            *)
(***************************************************************************)

\* Level diagonals in 1/Q (0, 5, 10 and 17.35 world units) and viewport
\* sizes in pixels.
Diagonals == {0, 500, 1000, 1735}
ViewportSizes == {100, 400, 600, 720, 1280}

\* Centre points of a level, and the pitches and yaws of the camera.
CenterPoints ==
    {Vec3(Zero, Num(Q), Zero),
     Vec3(Num(173), Num(250), Num(150)),
     Vec3(Num(-5 * Q), Zero, Num(3 * Q))}
FramingPitches == {-45, -90, -135, 45}
FramingYaws == {0, 45, 90, 135, 180, 225, 270, 315}

CallOptimalScale(level_diagonal, viewport_size) ==
    /\ NothingCalled
    /\ probe' = Probe("calculate_optimal_scale", <<>>,
                      [level_diagonal |-> level_diagonal, viewport_size |-> viewport_size],
                      "ok", calculate_optimal_scale(level_diagonal, viewport_size))
    /\ UNCHANGED <<ran, directory>>
    /\ UNCHANGED app_vars

CallOptimalCameraPosition(center_pos, camera_forward) ==
    /\ NothingCalled
    /\ probe' = Probe("calculate_optimal_camera_position", <<>>,
                      [center_pos |-> center_pos, camera_forward |-> camera_forward],
                      "ok", calculate_optimal_camera_position(center_pos, camera_forward))
    /\ UNCHANGED <<ran, directory>>
    /\ UNCHANGED app_vars

\* C21: calculate_optimal_scale(diagonal, viewport_size) is
\* (diagonal + 3) / viewport_size for every diagonal >= 0 and viewport size
\* > 0; diagonal 10 and viewport 100 give 0.13.
C21_OptimalScale ==
    probe.call = "calculate_optimal_scale" =>
        LET diagonal == probe.arg.level_diagonal
            viewport_size == probe.arg.viewport_size
        IN  /\ probe.result * Q * viewport_size <= (diagonal + 3 * Q) * SQ
            /\ (diagonal + 3 * Q) * SQ < (probe.result + 1) * Q * viewport_size
            /\ (diagonal = 10 * Q /\ viewport_size = 100) => probe.result = (13 * SQ) \div 100

\* The scale for diagonal 10 and viewport 100 has been computed.
C21_Witness ==
    /\ probe.call = "calculate_optimal_scale"
    /\ probe.arg.level_diagonal = 10 * Q
    /\ probe.arg.viewport_size = 100
    /\ probe.result = 1300

\* C22: for every centre and every forward direction with forward.y < 0,
\* calculate_optimal_camera_position returns a point at height center.y + 20
\* from which the ray along forward passes through the centre:
\* position + t * forward = center for t = 20 / -forward.y.
C22_RayThroughCentre ==
    (/\ probe.call = "calculate_optimal_camera_position"
     /\ Sgn(probe.arg.camera_forward.y) < 0) =>
        LET center == probe.arg.center_pos
            forward == probe.arg.camera_forward
            t == DivN(Num(2 * 20 * Q), Neg(forward.y))
        IN  /\ probe.result.y = Add(center.y, Num(20 * Q))
            /\ Add(probe.result.x, DivInt(Mul(forward.x, t), 2)) = center.x
            /\ Add(probe.result.y, DivInt(Mul(forward.y, t), 2)) = center.y
            /\ Add(probe.result.z, DivInt(Mul(forward.z, t), 2)) = center.z

\* A position has been computed for a camera looking down at 45 degrees and
\* turned by 45 degrees: it lies beside the centre, not over it.
C22_Witness ==
    /\ probe.call = "calculate_optimal_camera_position"
    /\ Sgn(probe.arg.camera_forward.y) < 0
    /\ probe.result.x # probe.arg.center_pos.x
    /\ probe.result.z # probe.arg.center_pos.z

\* Points of the XZ plane in 1/Q around the cell (0, 0), and the centres of
\* that cell and of its neighbours (1, 0) and (0, 1).
HexagonPoints ==
    {[x |-> Num(x), y |-> Num(y)] :
        x \in {-87, -86, -30, 0, 30, 43, 86, 87},
        y \in {-101, -100, -60, 0, 50, 51, 60, 75, 100, 101}}
CellCentres ==
    {[x |-> Num(hex_to_world_pos(hex).x), y |-> Num(hex_to_world_pos(hex).y)] :
        hex \in {Hex(0, 0), Hex(1, 0), Hex(0, 1)}}

CallInsideHexagon(point, center) ==
    /\ NothingCalled
    /\ probe' = Probe("is_inside_regular_hexagon", <<>>,
                      [point |-> point, center |-> center, radius |-> Q], "ok",
                      is_inside_regular_hexagon(point, center, Num(Q)))
    /\ UNCHANGED <<ran, directory>>
    /\ UNCHANGED app_vars

\* The regular pointy-top hexagon of circumradius radius around center, in
\* exact integer arithmetic: |dx| <= sqrt(3)/2 * radius and
\* |dy| <= radius - |dx| / sqrt(3).
InsideHexagon(point, center, radius) ==
    LET dx == Abs(point.x[1] - center.x[1])
        dy == Abs(point.y[1] - center.y[1])
    IN  /\ 4 * dx * dx <= 3 * radius * radius
        /\ dy <= radius
        /\ dx * dx <= 3 * (radius - dy) * (radius - dy)
StrictlyInsideHexagon(point, center, radius) ==
    LET dx == Abs(point.x[1] - center.x[1])
        dy == Abs(point.y[1] - center.y[1])
    IN  /\ 4 * dx * dx < 3 * radius * radius
        /\ dy < radius
        /\ dx * dx < 3 * (radius - dy) * (radius - dy)

\* C27: is_inside_regular_hexagon returns true exactly for the points inside
\* or on the regular pointy-top hexagon of circumradius radius around center:
\* the corners of the bounding rectangle are rejected, so a point strictly
\* inside one cell's footprint is accepted by no neighbouring cell.
C27_HexagonExact ==
    probe.call = "is_inside_regular_hexagon" =>
        /\ probe.result <=>
               InsideHexagon(probe.arg.point, probe.arg.center, probe.arg.radius)
        /\ \A other \in CellCentres \ {probe.arg.center} :
               StrictlyInsideHexagon(probe.arg.point, other, probe.arg.radius)
                   => ~probe.result

FramingNext ==
    \/ \E point \in HexagonPoints, center \in CellCentres : CallInsideHexagon(point, center)
    \/ \E level_diagonal \in Diagonals, viewport_size \in ViewportSizes :
           CallOptimalScale(level_diagonal, viewport_size)
    \/ \E center_pos \in CenterPoints, pitch \in FramingPitches, yaw \in FramingYaws :
           CallOptimalCameraPosition(center_pos, LookDirection(pitch, yaw))

FramingSpec == Init /\ [][FramingNext]_vars

(***************************************************************************)
(* get_level_diagonal_extent on its own: it is called on one height field  *)
(* after another.                                                          *)
(***************************************************************************)

\* Cell heights in 1/Q, and the levels of up to 2 x 2 cells made of them.
ExtentHeights == {0, 150, 300, 450}
ExtentLevels ==
    UNION {{MakeLevel("Field", width, height, heights) :
                heights \in [1..height -> [1..width -> ExtentHeights]]} :
           width \in 1..2, height \in 1..2}

CallDiagonalExtent(level) ==
    /\ probe' = Probe("get_level_diagonal_extent", level, <<>>, "ok",
                      get_level_diagonal_extent(level))
    /\ UNCHANGED <<ran, directory>>
    /\ UNCHANGED app_vars

ExtentNext == \E level \in ExtentLevels : CallDiagonalExtent(level)

ExtentSpec == Init /\ [][ExtentNext]_vars

ExtentCalled == probe.call = "get_level_diagonal_extent"

\* The heights of all cells of a level, and their spread max - min.
CellHeights(level) ==
    {level.heights[row][col] : row \in 1..level.height, col \in 1..level.width}
Spread(level) == SetMax(CellHeights(level)) - SetMin(CellHeights(level))

\* level_b is level_a with one constant added to every height.
Shifted(level_a, level_b) ==
    LET c == level_b.heights[1][1] - level_a.heights[1][1]
    IN  \A row \in 1..level_a.height, col \in 1..level_a.width :
            level_b.heights[row][col] = level_a.heights[row][col] + c

\* C23: get_level_diagonal_extent is unchanged when one constant is added to
\* every cell's height, and does not decrease when the height spread
\* (max - min) of a grid of fixed dimensions increases.
C23_Step ==
    (/\ ExtentCalled /\ ExtentCalled'
     /\ probe'.level.width = probe.level.width
     /\ probe'.level.height = probe.level.height) =>
        /\ Shifted(probe.level, probe'.level) => probe'.result = probe.result
        /\ Spread(probe'.level) >= Spread(probe.level) => probe'.result >= probe.result
C23_ExtentShiftAndSpread == [][C23_Step]_vars

\* The extent of a 2 x 2 level whose heights are all above 0 and differ has
\* been computed, and the height spread shows in it.
C23_Witness ==
    /\ ExtentCalled
    /\ probe.level.width = 2 /\ probe.level.height = 2
    /\ SetMin(CellHeights(probe.level)) > 0
    /\ Spread(probe.level) > 0
    /\ probe.result > get_level_diagonal_extent(MakeLevel("Flat", 2, 2, <<<<0, 0>>, <<0, 0>>>>))

(***************************************************************************)
(* The camera update systems in the app (Spec).                            *)
(***************************************************************************)

\* Nothing for the camera update systems to react to: the levels resource
\* and the projection are unchanged, no resize event is waiting, and no
\* completed rotation is unprocessed.
NothingToHandle ==
    /\ ~levels_changed
    /\ ~resize_events
    /\ ~projection_changed
    /\ ~(IsStable(rotation_state.rotation_mode) /\ ~camera_limits.rotation_processed)

CameraUpdateSystems ==
    \/ on_level_change_system
    \/ on_zoom_change_system
    \/ on_rotation_complete_system
    \/ on_window_resize_system

\* C24: when there is no level change, no window resize, no zoom change and
\* no unprocessed rotation completion, a run of the camera update systems
\* leaves max_zoom_scale, level_diagonal, optimal_camera_position,
\* current_movement_radius and the camera's zoom scale unchanged.
C24_Step ==
    (NothingToHandle /\ CameraUpdateSystems) =>
        /\ camera_limits'.max_zoom_scale = camera_limits.max_zoom_scale
        /\ camera_limits'.level_diagonal = camera_limits.level_diagonal
        /\ camera_limits'.optimal_camera_position = camera_limits.optimal_camera_position
        /\ camera_limits'.current_movement_radius = camera_limits.current_movement_radius
        /\ ortho_scale' = ortho_scale
C24_QuietSystemsKeepLimits == [][C24_Step]_vars

\* The camera has been zoomed and turned, everything has been handled, and
\* the camera update systems have nothing to react to.
C24_Witness ==
    /\ ~panicked
    /\ NothingToHandle
    /\ recomputes > 0
    /\ ortho_scale # camera_limits.max_zoom_scale

\* C25: after on_level_change_system has handled a level change with a
\* window available, the cached level_diagonal is the diagonal extent of the
\* now-current level, max_zoom_scale is (level_diagonal + 3) / viewport size
\* for the current orientation, the camera's scale is max_zoom_scale, the
\* camera's position is the cached optimal_camera_position, and
\* current_movement_radius is 0.
C25_Step ==
    (levels_changed /\ window.present /\ on_level_change_system) =>
        /\ camera_limits'.level_diagonal =
               get_level_diagonal_extent(current_level(levels', current_level_index'))
        /\ camera_limits'.max_zoom_scale =
               ((camera_limits'.level_diagonal + 3 * Q) * SQ)
                   \div (Q * get_viewport_size_for_orientation(camera_transform', window'))
        /\ ortho_scale' = camera_limits'.max_zoom_scale
        /\ camera_transform'.translation = camera_limits'.optimal_camera_position
        /\ camera_limits'.current_movement_radius = 0
C25_LevelChangeFramesCamera == [][C25_Step]_vars

(***************************************************************************)
(* Turning the camera: rotation requests, the animation and the            *)
(* recomputation at its end, from the camera as setup_camera spawns it;    *)
(* and get_viewport_size_for_orientation called on yaws of its own.        *)
(***************************************************************************)
MaxTurns == 4

\* Yaws as to_euler reports them, in (-180, 180], around the edges of the
\* two portrait bands.
YawSamples == {-179, -146, -145, -135, -125, -124, -45, -1, 0, 34, 35, 45, 55, 56, 90, 180}

CallViewportSize(yaw, size) ==
    /\ NothingCalled
    /\ budget = MaxTurns
    /\ LET transform == Transform(SetupTransform.translation, yaw)
           size_window == [present |-> TRUE, width |-> size[1], height |-> size[2]]
       IN  probe' = Probe("get_viewport_size_for_orientation", <<>>,
                          [yaw |-> yaw, window |-> size_window], "ok",
                          get_viewport_size_for_orientation(transform, size_window))
    /\ UNCHANGED <<ran, directory>>
    /\ UNCHANGED app_vars

TurnInit ==
    /\ InitWith(LoadedLevels, MaxTurns)
    /\ ran = {}
    /\ probe = NoProbe
    /\ directory = NoDirectory

TurnNext ==
    \/ \E key_q, key_e \in BOOLEAN : camera_rotation_input_system(key_q, key_e)
    \/ \E delta_time \in Deltas : camera_rotation_animation_system(delta_time)
    \/ on_rotation_complete_system
    \/ \E yaw \in YawSamples, size \in WindowSizes : CallViewportSize(yaw, size)

TurnSpec == TurnInit /\ [][TurnNext]_vars

\* The number of rotations requested so far.
Turns == MaxTurns - budget

\* The yaw lies in one of the two portrait bands once normalised to [0, 360).
InPortraitBand(yaw) ==
    \/ (Norm360(yaw) >= 35 /\ Norm360(yaw) <= 55)
    \/ (Norm360(yaw) >= 215 /\ Norm360(yaw) <= 235)

ViewportChoice == get_viewport_size_for_orientation(camera_transform, window)

\* The call returns the height exactly in the two bands, the width otherwise.
C26_Bands ==
    probe.call = "get_viewport_size_for_orientation" =>
        probe.result = IF InPortraitBand(probe.arg.yaw)
                       THEN probe.arg.window.height
                       ELSE probe.arg.window.width

\* With the camera at rest the choice is the height after an odd number of
\* rotations and the width after an even number; in particular it is the
\* width at the start and after four rotations.
C26_Parity ==
    (~panicked /\ IsStable(rotation_state.rotation_mode)) =>
        /\ ViewportChoice = IF Turns % 2 = 1 THEN window.height ELSE window.width
        /\ InPortraitBand(camera_transform.yaw) <=> Turns % 2 = 1

\* The frame that completes a rotation leaves the other choice than the one
\* the rotation started from; four rotations in one direction bring the yaw
\* back to where it was.
C26_Step ==
    (~IsStable(rotation_state.rotation_mode) /\ IsStable(rotation_state'.rotation_mode)) =>
        /\ ViewportChoice' #
               get_viewport_size_for_orientation(
                   Transform(camera_transform.translation, orbit.yaw0), window)
        /\ camera_transform'.yaw = WrapYaw(orbit.yaw0 + orbit.direction * 90)

\* C26: get_viewport_size_for_orientation returns the window height exactly
\* when the yaw normalised to [0, 360) lies in [35, 55] or [215, 235] and the
\* width otherwise; starting from the initial yaw of -45 degrees (width),
\* every completed 90 degree rotation in either direction switches between
\* the width and the height choice, and four rotations in the same direction
\* return to the initial choice.
C26_ViewportChoiceAlternates ==
    /\ []C26_Bands
    /\ []C26_Parity
    /\ [][C26_Step]_vars

\* Four rotations have been completed and the camera is back at the yaw it
\* was spawned with, choosing the width.
C26_Witness ==
    /\ IsStable(rotation_state.rotation_mode)
    /\ Turns = 4
    /\ camera_limits.rotation_processed
    /\ camera_transform.yaw = SetupTransform.yaw
    /\ ViewportChoice = window.width

(***************************************************************************)
(* Cycling through the levels: the arrow keys and the system that frames   *)
(* the level switched to, on a registry of three levels and on the         *)
(* registry of the single default level.                                   *)
(***************************************************************************)
MaxCycles == 4

CycleInit ==
    /\ \E registry \in {LoadedLevels, with_default.levels} : InitWith(registry, MaxCycles)
    /\ ran = {}
    /\ probe = NoProbe
    /\ directory = NoDirectory

CycleNext ==
    \/ \E arrow_left, arrow_right \in BOOLEAN :
           level_cycling_input_system(arrow_left, arrow_right)
    \/ on_level_change_system

CycleSpec == CycleInit /\ [][CycleNext]_vars

C28_InRange ==
    /\ current_level_index >= 0
    /\ current_level_index < level_count(levels)

\* Next and then previous, from the index as it stands, come back to it.
C28_RoundTrip ==
    level_count(levels) > 1 =>
        CycledIndex(CycledIndex(current_level_index, level_count(levels), FALSE, TRUE),
                    level_count(levels), TRUE, FALSE) = current_level_index

C28_Step ==
    \A arrow_left, arrow_right \in BOOLEAN :
        level_cycling_input_system(arrow_left, arrow_right) =>
            LET count == level_count(levels)
                last == count - 1
            IN  /\ count <= 1 => current_level_index' = current_level_index
                /\ (count > 1 /\ arrow_right /\ ~arrow_left) =>
                       current_level_index' =
                           IF current_level_index = last THEN 0
                           ELSE current_level_index + 1
                /\ (count > 1 /\ arrow_left /\ ~arrow_right) =>
                       current_level_index' =
                           IF current_level_index = 0 THEN last
                           ELSE current_level_index - 1

\* C28: after any sequence of previous/next inputs the current level index
\* is less than the number of levels; next moves from the last index to 0
\* and previous from 0 to the last index; next followed by previous restores
\* the index; with one level no input changes the index.
C28_LevelCycling ==
    /\ []C28_InRange
    /\ []C28_RoundTrip
    /\ [][C28_Step]_vars

\* One input has been made and the last of three levels is current: previous
\* has wrapped around from index 0.
C28_Witness ==
    /\ level_count(levels) = 3
    /\ budget = MaxCycles - 1
    /\ current_level_index = 2

(***************************************************************************)
(* Mouse panning and turning: the frames of camera_mouse_pan_system with   *)
(* the right mouse button itself kept track of, rotation requests and the  *)
(* animation.                                                              *)
(***************************************************************************)

\* Whether the right mouse button is down after the events of a frame.
ButtonAfter(held, button_events) ==
    IF button_events = <<>> THEN held
    ELSE button_events[Len(button_events)] = "Pressed"

\* The right mouse button is down.
ButtonHeld == probe.call = "MouseButtonInput" /\ probe.arg

\* One frame of the mouse: the button events happen to the button, and
\* camera_mouse_pan_system runs on them.
MouseFrame(button_events, motion_events) ==
    /\ button_events = <<"Released">> => ButtonHeld
    /\ button_events = <<"Pressed">> => ~ButtonHeld
    /\ button_events # <<>> \/ motion_events # <<>>
    /\ MousePanRun(button_events, motion_events)
    /\ probe' = Probe("MouseButtonInput", <<>>, ButtonAfter(ButtonHeld, button_events),
                      "ok", <<>>)
    /\ UNCHANGED <<ran, directory>>

PanNext ==
    \/ \E button_events \in ButtonEvents, motion_events \in MotionEvents :
           MouseFrame(button_events, motion_events)
    \/ \E key_q, key_e \in BOOLEAN : camera_rotation_input_system(key_q, key_e)
    \/ \E delta_time \in Deltas : camera_rotation_animation_system(delta_time)

PanSpec == Init /\ [][PanNext]_vars

\* C29: after any sequence of right-mouse press/release events, mouse motion
\* and camera rotations, is_panning is true only while the right mouse button
\* is held: a release that happens while a rotation is in progress still ends
\* panning.
C29_PanningOnlyWhileHeld == pan_state.is_panning => ButtonHeld

(***************************************************************************)
(* raycast_hex_surfaces on rays that cross the tops of several cells       *)
(* (FocusSpec).                                                            *)
(***************************************************************************)
RaycastCalled == probe.call = "raycast_hex_surfaces" /\ probe.outcome = "ok"

\* The ray parameter at which the ray of the call meets the top of a cell.
CellT(hex) ==
    RayPlaneT(probe.arg.camera_pos, probe.arg.direction, get_height(probe.level, hex))

\* The cells of the level, and those the ray of the call hits by the test of
\* raycast_hex_surfaces.
CellsOf(level) == {Hex(q, r) : q \in 0..(level.width - 1), r \in 0..(level.height - 1)}
CellsHit ==
    {hex \in CellsOf(probe.level) :
        HexHit(probe.arg.camera_pos, probe.arg.direction, probe.level, hex)}

\* The footprint of a cell: the pointy-top hexagon of radius 1 around its
\* centre, its slanted edges running from (0, 1) to (0.866, 0.5).
InFootprint(point, hex) ==
    LET dx == AbsN(Sub(point.x, Num(hex_to_world_pos(hex).x)))
        dy == AbsN(Sub(point.z, Num(hex_to_world_pos(hex).y)))
    IN  /\ Leq(dx, Num((866 * Q) \div 1000))
        /\ Leq(dy, Num(Q))
        /\ Sgn(Sub(Sub(Num((866 * Q) \div 1000), MulK(dx, 500)), MulK(dy, 866))) >= 0

\* The cells whose top the ray crosses in front of the camera inside the
\* cell's own footprint.
CellsCrossed ==
    {hex \in CellsOf(probe.level) :
        /\ Sgn(CellT(hex)) >= 0
        /\ InFootprint(PointOnRay(probe.arg.camera_pos, probe.arg.direction, CellT(hex)),
                       hex)}

\* The ray crosses the tops of several cells of different heights, each
\* inside its own footprint, and hits no other cell.
SeveralCrossed ==
    /\ RaycastCalled
    /\ ~NearlyHorizontal(probe.arg.direction)
    /\ CellsHit = CellsCrossed
    /\ \E a, b \in CellsCrossed : get_height(probe.level, a) # get_height(probe.level, b)

\* The point the call returned is the hit of this cell.
ReturnedHitOf(hex) ==
    /\ probe.result.some
    /\ probe.result.value =
           LET p == PointOnRay(probe.arg.camera_pos, probe.arg.direction, CellT(hex))
           IN  Vec3(p.x, Num(get_height(probe.level, hex)), p.z)

\* C30: when the ray crosses the top surfaces of several cells of different
\* heights inside their own footprints, raycast_hex_surfaces returns the hit
\* nearest to the camera (smallest t >= 0), whatever the order in which
\* get_hex_grid enumerates the cells.
C30_NearestHit ==
    SeveralCrossed =>
        \E hex \in CellsCrossed :
            /\ ReturnedHitOf(hex)
            /\ \A other \in CellsCrossed : Leq(CellT(hex), CellT(other))

\* C30, amended: the call returns the hit of the first cell, in the order
\* q outermost and r innermost, that contains its own intersection, which
\* need not be the hit nearest to the camera.
C30_FirstInGridOrder ==
    (RaycastCalled /\ ~NearlyHorizontal(probe.arg.direction) /\ CellsHit # {}) =>
        \E hex \in CellsHit :
            /\ ReturnedHitOf(hex)
            /\ \A other \in CellsHit :
                   hex.x < other.x \/ (hex.x = other.x /\ hex.y <= other.y)

\* A ray has crossed the tops of two cells inside their footprints, and the
\* hit returned is that of the first cell in grid order, the farther one.
C30_Witness ==
    /\ SeveralCrossed
    /\ \E hex \in CellsCrossed :
           /\ ReturnedHitOf(hex)
           /\ \E other \in CellsCrossed : Less(CellT(other), CellT(hex))

====
